---- MODULE Spec2Model ----
(***************************************************************************)
(* Verification model of the smart_rce integration:                        *)
(*   - the charge-window optimizer of domain/ems.py                        *)
(*     (find_charge_hours, EmsDayPrices, EmsDayData.create);               *)
(*   - the price-cache refresh policy of coordinator.py                    *)
(*     (SmartRceDataUpdateCoordinator._async_update_data);                 *)
(*   - the water-heater load controller of domain/ems.py                   *)
(*     (WaterHeaterManager.update);                                        *)
(*   - the adapter that builds the controller's snapshot from the host     *)
(*     states (adapter.py);                                                *)
(*   - the parsing of an API response (RceDayPrices.create_from_json);     *)
(*   - the Ems object (Ems.update_rce, Ems.update_hourly).                 *)
(*                                                                         *)
(* Prices are modelled as integers (PLN/MWh); hours with a half-hour part  *)
(* (best_start_charge_hour returns best_hour - 0.5) are kept in half-hour  *)
(* units, so 5.5 is the integer 11.                                        *)
(***************************************************************************)
EXTENDS Integers, Sequences, FiniteSets, TLC

----------------------------------------------------------------------------
(* Program constants of domain/ems.py *)

MAX_CONSECUTIVE_HOURS == 8
INITIAL_BEST_CONSECUTIVE_HOURS == 3
POSSIBLE_CONSECUTIVE_HOURS == INITIAL_BEST_CONSECUTIVE_HOURS..MAX_CONSECUTIVE_HOURS

\* range(6, 16) of calculate_start_charge_hours
FIRST_START_HOUR == 6
END_START_HOUR == 16
\* thresholds of find_best_consecutive_hours
CHEAP_PRICE == 100
MAX_PRICE_RISE == 45
\* a day of the price series
DAY_HOURS == 24

\* WaterHeaterManager.HEATER_POWER
HEATER_POWER == 3000

(* Program constants of coordinator.py *)
RCE_TOMORROW_PUBLICATION_HOUR == 14
MINIMUM_TIME_BETWEEN_FETCHES_SECONDS == 14 * 60

----------------------------------------------------------------------------
(* Bounds of the model *)

\* a price series of the model is piecewise constant with at most this many
\* changes of level between consecutive hours
MaxChanges == 3
\* the price levels: 100 is the first price that is not below CHEAP_PRICE and
\* 100 - 55 the first rise that is not below MAX_PRICE_RISE
PriceLevels == {55, 100}
\* lengths of the price list handed to find_charge_hours: a full day, one
\* hour less or more, and lists that end inside the scanned hours
SeriesLengths == {15, 20, DAY_HOURS - 1, DAY_HOURS, DAY_HOURS + 1}
\* last hour a full-length scan reads: prices[15:15+8]
LastReadHour == END_START_HOUR - 1 + MAX_CONSECUTIVE_HOURS - 1

\* the clock counts minutes from midnight of day 0; it is advanced at most
\* MaxTicks times, each time by one of TickSteps
MaxTicks == 4
TickSteps == {1, 14, 600}
StartClock == 13 * 60 + 50

\* the signals of an InputState.  A present signal is Some(v), an absent one
\* None.  battery_soc is kept in units of 1/SOC_UNIT percent, so that 89.5 is
\* the integer 179; powers are in watts; exported_energy_hourly is kept in
\* thousandths of a kWh (for these values float multiplication by 1000 is
\* exact).
SOC_UNIT == 2
SocValues == {-1 * SOC_UNIT, 0, 89 * SOC_UNIT, 89 * SOC_UNIT + 1, 90 * SOC_UNIT,
              95 * SOC_UNIT, 96 * SOC_UNIT, 96 * SOC_UNIT + 1, 97 * SOC_UNIT,
              98 * SOC_UNIT, 99 * SOC_UNIT, 99 * SOC_UNIT + 1, 100 * SOC_UNIT,
              101 * SOC_UNIT}
\* consumption_minus_pv_2_minutes: the negated PV surplus
ConsumptionValues == {1, 0, -1, -3000, -3001, -3100, -3300, -3301, -3500, -3501, -3700, -3701}
\* battery_power_2_minutes: the negated charging power
BatteryPowerValues == {-50, -89, -90, -99, -100, -899, -900}
ExportedValues == {0, 80, 81, 300, 301}

\* results are records tagged with their kind; an exception is a record of
\* the exception's kind
None == [kind |-> "None"]
StatisticsError == [kind |-> "StatisticsError"]
TypeError == [kind |-> "TypeError"]

UpdateFailed == [kind |-> "UpdateFailed"]

VARIABLES
    rce_prices,     \* the price list of the RceDayPrices given to the optimizer
    ems_prices,     \* find_charge_hours' result: None, an EmsDayPrices, or the error raised
    day_data,       \* EmsDayData.create's result: None, an EmsDayData, or the error raised
    ems_prices_2,   \* what a second call of find_charge_hours(rce_prices) returned
    clock,          \* now_local(), in minutes
    ticks,          \* number of times the clock was advanced
    data,           \* coordinator.data: None or the cached RceData
    pc,             \* where the refresh in flight waits: "idle" when none is
    refresh_now,    \* `now` of the latest _async_update_data call
    seen,           \* coordinator.data as the latest _async_update_data call found it
    pending_today,  \* _full_update: the awaited result of the today fetch
    fetches,        \* days requested from the API by the latest refresh, in order
    results,        \* what those requests returned or raised, in order
    outcome,        \* how the latest refresh ended: None before the first one,
                    \* "pending", "ok", or the exception it raised
    input,          \* the InputState of the latest WaterHeaterManager.update call
    should_turn_on, \* WaterHeaterManager.should_turn_on
    should_turn_off,\* WaterHeaterManager.should_turn_off
    prev_outputs,   \* (should_turn_on, should_turn_off) before that call
    hass_states,    \* hass.states: the host state of each of the five entities
    started,        \* hass_started has run: the adapter listens for state changes
    json_data,      \* data["value"]: the records of an API response
    rce_day,        \* what was built from them: NotCalled, None or an RceDayPrices
    ems,            \* the Ems object: today, tomorrow, rce_data, current_price
    ems_call,       \* the latest call of an Ems method, with what it raised and
                    \* how many times it notified the listeners
    listeners,      \* Ems._listeners: the registrations, in insertion order
    registry,       \* the registrations made and the ones whose remove function
                    \* has been called
    notifications,  \* the latest run of Ems._async_update_listeners: who was
                    \* invoked, and the outputs each of them found
    weather,        \* the WeatherListenerCoordinator and the weather entity
    weather_event   \* the latest event the WeatherListenerCoordinator handled

optVars == <<rce_prices, ems_prices, day_data, ems_prices_2>>
cacheVars == <<clock, ticks, data, pc, refresh_now, seen, pending_today, fetches, results, outcome>>
heaterVars == <<input, should_turn_on, should_turn_off, prev_outputs>>
adapterVars == <<hass_states, started>>
jsonVars == <<json_data, rce_day>>
emsVars == <<ems, ems_call>>
listenerVars == <<listeners, registry, notifications>>
weatherVars == <<weather, weather_event>>
vars == <<rce_prices, ems_prices, day_data, ems_prices_2,
          clock, ticks, data, pc, refresh_now, seen, pending_today, fetches, results, outcome,
          input, should_turn_on, should_turn_off, prev_outputs,
          hass_states, started, json_data, rce_day, ems, ems_call,
          listeners, registry, notifications, weather, weather_event>>

----------------------------------------------------------------------------
(* Python list helpers; hour h of a list is element h + 1 of the sequence *)

Min2(a, b) == IF a < b THEN a ELSE b
Max2(a, b) == IF a < b THEN b ELSE a

\* prices[h]
At(prices, h) == prices[h + 1]

\* the slice prices[a:b] for 0 <= a <= b is the hours a .. SliceEnd(prices, b) - 1:
\* a slice is cut at the end of the list and may be empty
SliceEnd(prices, b) == Min2(b, Len(prices))
SliceLen(prices, a, b) == Max2(0, SliceEnd(prices, b) - a)

\* sum of the hours a .. e - 1
RECURSIVE SumHours(_, _, _)
SumHours(prices, a, e) ==
    IF a >= e THEN 0 ELSE At(prices, a) + SumHours(prices, a + 1, e)

\* max of the hours a .. e - 1, a < e
RECURSIVE MaxHours(_, _, _)
MaxHours(prices, a, e) ==
    IF a + 1 >= e THEN At(prices, a)
    ELSE Max2(At(prices, a), MaxHours(prices, a + 1, e))

\* statistics.mean(prices[a:b]) of a non-empty slice, as the exact fraction s / n
Mean(prices, a, b) ==
    [s |-> SumHours(prices, a, SliceEnd(prices, b)), n |-> SliceLen(prices, a, b)]
\* max(prices[a:b]) of a non-empty slice
SliceMax(prices, a, b) == MaxHours(prices, a, SliceEnd(prices, b))
\* float("inf"), as the fraction 1 / 0
Inf == [s |-> 1, n |-> 0]
\* variant: "avg <= min_avg", a later hour with an equal mean replaces the earlier
AvgLess_OrEqual(avg, min_avg) == avg.s * min_avg.n <= min_avg.s * avg.n

\* avg < min_avg on fractions with non-negative denominators
AvgLess(avg, min_avg) == avg.s * min_avg.n < min_avg.s * avg.n

----------------------------------------------------------------------------
(* calculate_start_charge_hours *)

\* the inner loop "for hour in range(6, 16)" from `hour` on
RECURSIVE ScanStartHours(_, _, _, _, _)
ScanStartHours(prices, consecutive_hours, hour, min_avg, best_hour) ==
    IF hour >= END_START_HOUR THEN [kind |-> "int", hour |-> best_hour]
    ELSE IF SliceLen(prices, hour, hour + consecutive_hours) = 0 THEN StatisticsError
         ELSE LET avg == Mean(prices, hour, hour + consecutive_hours)
              IN  IF AvgLess(avg, min_avg)
                  THEN ScanStartHours(prices, consecutive_hours, hour + 1, avg, hour)
                  ELSE ScanStartHours(prices, consecutive_hours, hour + 1, min_avg, best_hour)

\* variant: the scan starts two hours early, "range(4, 16)"
BestHourFor_From4(prices, consecutive_hours) ==
    ScanStartHours(prices, consecutive_hours, FIRST_START_HOUR - 2, Inf, 0)

BestHourFor(prices, consecutive_hours) ==
    ScanStartHours(prices, consecutive_hours, FIRST_START_HOUR, Inf, 0)

\* the outer loop "for consecutive_hours in POSSIBLE_CONSECUTIVE_HOURS" from
\* `consecutive_hours` on; an exception raised by mean() ends it
RECURSIVE FillStartHours(_, _, _)
FillStartHours(prices, consecutive_hours, start_charge_hours) ==
    IF consecutive_hours > MAX_CONSECUTIVE_HOURS
    THEN [kind |-> "dict", at |-> start_charge_hours]
    ELSE LET best == BestHourFor(prices, consecutive_hours)
         IN  IF best = StatisticsError THEN StatisticsError
             ELSE FillStartHours(prices, consecutive_hours + 1,
                                 start_charge_hours @@ (consecutive_hours :> best.hour))

\* the dict {3: h3, ..., 8: h8}, or the exception mean() raises on an empty slice
calculate_start_charge_hours(prices) ==
    FillStartHours(prices, INITIAL_BEST_CONSECUTIVE_HOURS, <<>>)

----------------------------------------------------------------------------
(* find_best_consecutive_hours *)

\* variant: a longer window at the same start hour is not adopted
Adopts_NoSameStart(prices, candidate, best_hour, initial_consecutive_hours_max_price) ==
    /\ candidate < best_hour
    /\ \/ At(prices, candidate) < CHEAP_PRICE
       \/ At(prices, candidate) - initial_consecutive_hours_max_price < MAX_PRICE_RISE

\* variant: a later start is adopted too
Adopts_LaterStart(prices, candidate, best_hour, initial_consecutive_hours_max_price) ==
    \/ candidate >= best_hour
    \/ /\ candidate < best_hour
       /\ \/ At(prices, candidate) < CHEAP_PRICE
          \/ At(prices, candidate) - initial_consecutive_hours_max_price < MAX_PRICE_RISE

\* variant: every earlier start is adopted, whatever its price
Adopts_NoPriceTest(prices, candidate, best_hour, initial_consecutive_hours_max_price) ==
    \/ candidate = best_hour
    \/ candidate < best_hour

\* the condition of the if statement in the loop body
Adopts(prices, candidate, best_hour, initial_consecutive_hours_max_price) ==
    \/ candidate = best_hour
    \/ /\ candidate < best_hour
       /\ \/ At(prices, candidate) < CHEAP_PRICE
          \/ At(prices, candidate) - initial_consecutive_hours_max_price < MAX_PRICE_RISE

\* variant: "best_hour = candidate" is added to the body of the if statement
RECURSIVE CheckHours_MovingHour(_, _, _, _, _, _)
CheckHours_MovingHour(prices, start_charge_hours, consecutive_hours, best_consecutive_hours, best_hour, initial_max_price) ==
    IF consecutive_hours > MAX_CONSECUTIVE_HOURS THEN best_consecutive_hours
    ELSE LET adopted == Adopts(prices, start_charge_hours[consecutive_hours],
                               best_hour, initial_max_price)
         IN  CheckHours_MovingHour(prices, start_charge_hours, consecutive_hours + 1,
                 IF adopted THEN consecutive_hours ELSE best_consecutive_hours,
                 IF adopted THEN start_charge_hours[consecutive_hours] ELSE best_hour,
                 initial_max_price)

\* the loop "for consecutive_hours in hours_to_check" from `consecutive_hours` on;
\* best_hour is set once before the loop and not assigned in it
RECURSIVE CheckHours(_, _, _, _, _, _)
CheckHours(prices, start_charge_hours, consecutive_hours, best_consecutive_hours, best_hour, initial_max_price) ==
    IF consecutive_hours > MAX_CONSECUTIVE_HOURS THEN best_consecutive_hours
    ELSE CheckHours(prices, start_charge_hours, consecutive_hours + 1,
                    IF Adopts(prices, start_charge_hours[consecutive_hours],
                              best_hour, initial_max_price)
                    THEN consecutive_hours ELSE best_consecutive_hours,
                    best_hour, initial_max_price)

find_best_consecutive_hours(prices, start_charge_hours) ==
    LET best_hour == start_charge_hours[INITIAL_BEST_CONSECUTIVE_HOURS]
        initial_consecutive_hours_max_price ==
            SliceMax(prices, best_hour, best_hour + INITIAL_BEST_CONSECUTIVE_HOURS)
    IN  CheckHours(prices, start_charge_hours, INITIAL_BEST_CONSECUTIVE_HOURS + 1,
                   INITIAL_BEST_CONSECUTIVE_HOURS, best_hour,
                   initial_consecutive_hours_max_price)

----------------------------------------------------------------------------
(* find_charge_hours and EmsDayPrices *)

find_charge_hours(prices) ==
    LET start_charge_hours == calculate_start_charge_hours(prices)
    IN  IF start_charge_hours = StatisticsError THEN StatisticsError
        ELSE [kind |-> "EmsDayPrices",
              hour_price |-> prices,
              start_charge_hours |-> start_charge_hours.at,
              best_consecutive_hours |->
                  find_best_consecutive_hours(prices, start_charge_hours.at)]

\* variant: the half hour of lead is never subtracted
best_start_charge_hour_NoLead(p) ==
    2 * p.start_charge_hours[p.best_consecutive_hours]

\* EmsDayPrices.best_start_charge_hour, in half hours
best_start_charge_hour(p) ==
    LET best_hour == p.start_charge_hours[p.best_consecutive_hours]
    IN  IF p.best_consecutive_hours = INITIAL_BEST_CONSECUTIVE_HOURS
        THEN 2 * best_hour - 1
        ELSE 2 * best_hour

\* variant: the end is the last charged hour, as in last_hour_of_charge
best_end_charge_hour_Inclusive(p) ==
    2 * (p.start_charge_hours[p.best_consecutive_hours] + p.best_consecutive_hours - 1)

\* EmsDayPrices.best_end_charge_hour, in half hours
best_end_charge_hour(p) ==
    2 * (p.start_charge_hours[p.best_consecutive_hours] + p.best_consecutive_hours)

\* EmsDayPrices.hour_to_timestamp: datetime.time() takes integer hours only
hour_to_timestamp(half_hours) ==
    IF half_hours % 2 = 0
    THEN [kind |-> "datetime", hour |-> half_hours \div 2, minute |-> 0]
    ELSE TypeError

\* EmsDayData.create
EmsDayData_create(p) ==
    LET start_charge_hour == best_start_charge_hour(p)
        end_charge_hour == best_end_charge_hour(p)
    IN  IF hour_to_timestamp(start_charge_hour) = TypeError THEN TypeError
        ELSE [kind |-> "EmsDayData",
              hour_price |-> p.hour_price,
              start_charge_hour |-> start_charge_hour,
              start_charge_hour_datetime |-> hour_to_timestamp(start_charge_hour),
              end_charge_hour |-> end_charge_hour,
              end_charge_hour_datetime |-> hour_to_timestamp(end_charge_hour)]

IsError(x) == x \in {StatisticsError, TypeError}
IsPlan(x) == x # None /\ ~IsError(x)

----------------------------------------------------------------------------
(* The price series the model feeds to the optimizer *)

\* the hours at which the level may change
ChangeHours(n) == (FIRST_START_HOUR + 1)..Min2(n - 1, LastReadHour)

\* the series of n hours that starts at level lv[0] and moves to lv[i + 1] at
\* the i-th smallest hour of cs
MkSeries(n, cs, lv) ==
    [i \in 1..n |-> lv[Cardinality({c \in cs : c <= i - 1})]]

PriceSeries(n) ==
    { MkSeries(n, cs, lv) :
        cs \in {c \in SUBSET ChangeHours(n) : Cardinality(c) <= MaxChanges},
        lv \in {l \in [0..MaxChanges -> PriceLevels] :
                    \A i \in 1..MaxChanges : l[i] # l[i - 1]} }

----------------------------------------------------------------------------
(* Optimizer specification *)

\* the coordinator after __init__
CoordinatorInit ==
    /\ clock = StartClock
    /\ ticks = 0
    /\ data = None
    /\ pc = "idle"
    /\ refresh_now = StartClock
    /\ seen = None
    /\ pending_today = None
    /\ fetches = <<>>
    /\ results = <<>>
    /\ outcome = None

\* InputState(): every signal absent
InputState(heater, soc, battery, consumption, exported) ==
    [water_heater_is_on |-> heater,
     battery_soc |-> soc,
     battery_power_2_minutes |-> battery,
     consumption_minus_pv_2_minutes |-> consumption,
     exported_energy_hourly |-> exported]

\* the five entities of adapter.HASS_STATE_MAPPER, by the InputState field
\* their setter assigns
Entities == {"water_heater_is_on", "battery_soc", "battery_power_2_minutes",
             "consumption_minus_pv_2_minutes", "exported_energy_hourly"}

\* before hass_started: the host states are not read yet
AdapterInit ==
    /\ hass_states = [e \in Entities |-> None]
    /\ started = FALSE

\* no API response has been parsed
NotCalled == [kind |-> "NotCalled"]
JsonInit ==
    /\ json_data = <<>>
    /\ rce_day = NotCalled

\* EmsDayData.empty()
EmsDayData_empty == [kind |-> "EmsDayData", hour_price |-> None]

\* Ems.__init__
EmsInit ==
    /\ ems = [today |-> EmsDayData_empty, tomorrow |-> EmsDayData_empty,
              rce_data |-> None, current_price |-> None]
    /\ ems_call = None

\* Ems.__init__: no listener is registered
NoNotification == [kind |-> "None"]
ListenersInit ==
    /\ listeners = <<>>
    /\ registry = [added |-> {}, removed |-> {}]
    /\ notifications = NoNotification

\* WeatherListenerCoordinator.__init__ while the host is starting: nothing
\* is subscribed, the weather entity is not added yet
NoEntity == 0
NoCallback == 0
WeatherInit ==
    /\ weather = [entity |-> NoEntity,
                  entities |-> 0,
                  subscriptions |-> {},
                  registrations |-> 0,
                  on_remove |-> <<>>,
                  _unsubscribe_callback |-> NoCallback,
                  _hass_started |-> FALSE,
                  _shutdown_requested |-> FALSE,
                  forecast_hourly |-> None,
                  _last_hourly_forecast |-> None,
                  _last_hourly_forecast_day |-> None]
    /\ weather_event = None

\* WaterHeaterManager.__init__; the adapter starts from InputState()
WaterHeaterInit ==
    /\ input = InputState(None, None, None, None, None)
    /\ should_turn_on = FALSE
    /\ should_turn_off = FALSE
    /\ prev_outputs = <<FALSE, FALSE>>

OptInit ==
    /\ \E n \in SeriesLengths : rce_prices \in PriceSeries(n)
    /\ ems_prices = None
    /\ day_data = None
    /\ ems_prices_2 = None
    /\ CoordinatorInit
    /\ WaterHeaterInit
    /\ AdapterInit
    /\ JsonInit
    /\ EmsInit
    /\ ListenersInit
    /\ WeatherInit

\* find_charge_hours(rce_prices)
FindChargeHours ==
    /\ ems_prices = None
    /\ ems_prices' = find_charge_hours(rce_prices)
    /\ UNCHANGED <<rce_prices, day_data, ems_prices_2>>
    /\ UNCHANGED cacheVars
    /\ UNCHANGED heaterVars
    /\ UNCHANGED <<adapterVars, jsonVars, emsVars, listenerVars, weatherVars>>

\* EmsDayData.create(ems_prices)
Create ==
    /\ IsPlan(ems_prices)
    /\ day_data = None
    /\ day_data' = EmsDayData_create(ems_prices)
    /\ UNCHANGED <<rce_prices, ems_prices, ems_prices_2>>
    /\ UNCHANGED cacheVars
    /\ UNCHANGED heaterVars
    /\ UNCHANGED <<adapterVars, jsonVars, emsVars, listenerVars, weatherVars>>

\* variant: the call takes the first price off the list it is given
FindChargeHoursAgain_ConsumesSeries ==
    /\ ems_prices # None
    /\ ems_prices_2 = None
    /\ ems_prices_2' = find_charge_hours(rce_prices)
    /\ rce_prices' = Tail(rce_prices)
    /\ UNCHANGED <<ems_prices, day_data>>
    /\ UNCHANGED cacheVars
    /\ UNCHANGED heaterVars
    /\ UNCHANGED <<adapterVars, jsonVars, emsVars, listenerVars, weatherVars>>

\* find_charge_hours(rce_prices) once more: the function reads the list it
\* is given and the constants of the module, and builds new objects
FindChargeHoursAgain ==
    /\ ems_prices # None
    /\ ems_prices_2 = None
    /\ ems_prices_2' = find_charge_hours(rce_prices)
    /\ UNCHANGED <<rce_prices, ems_prices, day_data>>
    /\ UNCHANGED cacheVars
    /\ UNCHANGED heaterVars
    /\ UNCHANGED <<adapterVars, jsonVars, emsVars, listenerVars, weatherVars>>

OptNext == FindChargeHours \/ Create \/ FindChargeHoursAgain

SpecOpt == OptInit /\ [][OptNext]_vars

----------------------------------------------------------------------------
(* The price cache: SmartRceDataUpdateCoordinator *)

MINUTES_PER_DAY == DAY_HOURS * 60
\* datetime.date() and datetime.hour of a clock value
DateOf(t) == t \div MINUTES_PER_DAY
HourOf(t) == (t % MINUTES_PER_DAY) \div 60

\* the RceDayPrices the API returns for `day` when asked at time `now`
RceDayPrices(day, now) == [kind |-> "RceDayPrices", day |-> day, fetched |-> now]
RceData(fetched_at, today, tomorrow) ==
    [kind |-> "RceData", fetched_at |-> fetched_at, today |-> today, tomorrow |-> tomorrow]

\* what rce_api.async_get_prices(day) can do: return the day's prices, return
\* None when the API has no record of the day, or raise (ApiError, timeout)
FetchResults(day, now) == {RceDayPrices(day, now), None, UpdateFailed}

\* variant: a snapshot without today's prices is served from the cache
Decide_IgnoresMissingToday(d, now) ==
    IF d = None THEN "full"
    ELSE IF DateOf(d.fetched_at) # DateOf(now) THEN "full"
    ELSE IF d.today = None \/ d.tomorrow # None THEN "cached"
    ELSE IF HourOf(now) >= RCE_TOMORROW_PUBLICATION_HOUR THEN "TypeError"
    ELSE "cached"

\* variant: the date of fetched_at is not compared with today's date
Decide_NoRollover(d, now) ==
    IF d = None \/ d.today = None THEN "full"
    ELSE IF d.tomorrow # None THEN "cached"
    ELSE IF HourOf(now) >= RCE_TOMORROW_PUBLICATION_HOUR THEN "TypeError"
    ELSE "cached"

\* variant: "if not self.data.tomorrow: return self.data", the test inverted
Decide_RefetchWhenComplete(d, now) ==
    IF d = None \/ d.today = None THEN "full"
    ELSE IF DateOf(d.fetched_at) # DateOf(now) THEN "full"
    ELSE IF d.tomorrow = None THEN "cached"
    ELSE "full"

\* variant: before 14:00 a missing tomorrow is fetched by a full refresh
Decide_FetchBeforePublication(d, now) ==
    IF d = None \/ d.today = None THEN "full"
    ELSE IF DateOf(d.fetched_at) # DateOf(now) THEN "full"
    ELSE IF d.tomorrow # None THEN "cached"
    ELSE IF HourOf(now) >= RCE_TOMORROW_PUBLICATION_HOUR THEN "TypeError"
    ELSE "full"

\* the branches of _async_update_data up to its first await.  With today
\* cached, tomorrow missing and now.hour >= 14 the method compares the bound
\* method `timedelta.total_seconds` (it is not called) with an int, which
\* raises TypeError before any fetch.
Decide(d, now) ==
    IF d = None \/ d.today = None THEN "full"
    ELSE IF DateOf(d.fetched_at) # DateOf(now) THEN "full"
    ELSE IF d.tomorrow # None THEN "cached"
    ELSE IF HourOf(now) >= RCE_TOMORROW_PUBLICATION_HOUR THEN "TypeError"
    ELSE "cached"

\* time passes between two refreshes
AdvanceClock ==
    /\ pc = "idle"
    /\ ticks < MaxTicks
    /\ \E step \in TickSteps : clock' = clock + step
    /\ ticks' = ticks + 1
    /\ UNCHANGED <<data, pc, refresh_now, seen, pending_today, fetches, results, outcome>>
    /\ UNCHANGED optVars
    /\ UNCHANGED heaterVars
    /\ UNCHANGED <<adapterVars, jsonVars, emsVars, listenerVars, weatherVars>>

\* async_refresh -> _async_update_data, up to the first await or the return
RefreshRequest ==
    /\ pc = "idle"
    /\ refresh_now' = clock
    /\ seen' = data
    /\ pending_today' = None
    /\ results' = <<>>
    /\ LET branch == Decide(data, clock)
       IN  \/ /\ branch = "full"
              /\ pc' = "fetch_today"
              /\ fetches' = <<DateOf(clock)>>
              /\ outcome' = [kind |-> "pending"]
           \/ /\ branch = "cached"
              /\ pc' = "idle"
              /\ fetches' = <<>>
              /\ outcome' = [kind |-> "ok"]
           \/ /\ branch = "TypeError"
              /\ pc' = "idle"
              /\ fetches' = <<>>
              /\ outcome' = TypeError
    /\ UNCHANGED <<clock, ticks, data>>
    /\ UNCHANGED optVars
    /\ UNCHANGED heaterVars
    /\ UNCHANGED <<adapterVars, jsonVars, emsVars, listenerVars, weatherVars>>

\* variant: today's series is stored in coordinator.data as soon as it arrives
TodayFetched_PublishesToday ==
    /\ pc = "fetch_today"
    /\ \E r \in FetchResults(DateOf(refresh_now), refresh_now) :
          IF r = UpdateFailed
          THEN /\ pc' = "idle"
               /\ outcome' = UpdateFailed
               /\ results' = Append(results, r)
               /\ UNCHANGED <<pending_today, fetches, data>>
          ELSE /\ pc' = "fetch_tomorrow"
               /\ pending_today' = r
               /\ results' = Append(results, r)
               /\ fetches' = Append(fetches, DateOf(refresh_now + MINUTES_PER_DAY))
               /\ data' = RceData(refresh_now, r, None)
               /\ UNCHANGED outcome
    /\ UNCHANGED <<clock, ticks, refresh_now, seen>>
    /\ UNCHANGED optVars
    /\ UNCHANGED heaterVars
    /\ UNCHANGED <<adapterVars, jsonVars, emsVars, listenerVars, weatherVars>>

\* _full_update: the today fetch completes; an exception leaves the method
\* as UpdateFailed, otherwise the tomorrow fetch is started
TodayFetched ==
    /\ pc = "fetch_today"
    /\ \E r \in FetchResults(DateOf(refresh_now), refresh_now) :
          IF r = UpdateFailed
          THEN /\ pc' = "idle"
               /\ outcome' = UpdateFailed
               /\ results' = Append(results, r)
               /\ UNCHANGED <<pending_today, fetches>>
          ELSE /\ pc' = "fetch_tomorrow"
               /\ pending_today' = r
               /\ results' = Append(results, r)
               /\ fetches' = Append(fetches, DateOf(refresh_now + MINUTES_PER_DAY))
               /\ UNCHANGED outcome
    /\ UNCHANGED <<clock, ticks, data, refresh_now, seen>>
    /\ UNCHANGED optVars
    /\ UNCHANGED heaterVars
    /\ UNCHANGED <<adapterVars, jsonVars, emsVars, listenerVars, weatherVars>>

\* variant: a failed tomorrow fetch still stores the today series it has
TomorrowFetched_CommitsToday ==
    /\ pc = "fetch_tomorrow"
    /\ \E r \in FetchResults(DateOf(refresh_now + MINUTES_PER_DAY), refresh_now) :
          /\ results' = Append(results, r)
          /\ IF r = UpdateFailed
             THEN /\ outcome' = UpdateFailed
                  /\ data' = RceData(refresh_now, pending_today, None)
             ELSE /\ outcome' = [kind |-> "ok"]
                  /\ data' = RceData(refresh_now, pending_today, r)
    /\ pc' = "idle"
    /\ pending_today' = None
    /\ UNCHANGED <<clock, ticks, refresh_now, seen, fetches>>
    /\ UNCHANGED optVars
    /\ UNCHANGED heaterVars
    /\ UNCHANGED <<adapterVars, jsonVars, emsVars, listenerVars, weatherVars>>

\* variant: the second fetch asks for the date of now once more
TomorrowFetched_SameDay ==
    /\ pc = "fetch_tomorrow"
    /\ \E r \in FetchResults(DateOf(refresh_now), refresh_now) :
          /\ results' = Append(results, r)
          /\ IF r = UpdateFailed
             THEN /\ outcome' = UpdateFailed
                  /\ UNCHANGED data
             ELSE /\ outcome' = [kind |-> "ok"]
                  /\ data' = RceData(refresh_now, pending_today, r)
    /\ pc' = "idle"
    /\ pending_today' = None
    /\ UNCHANGED <<clock, ticks, refresh_now, seen, fetches>>
    /\ UNCHANGED optVars
    /\ UNCHANGED heaterVars
    /\ UNCHANGED <<adapterVars, jsonVars, emsVars, listenerVars, weatherVars>>

\* variant: a fetch that returns None ends the refresh as update-failed
TomorrowFetched_NoneFails ==
    /\ pc = "fetch_tomorrow"
    /\ \E r \in FetchResults(DateOf(refresh_now + MINUTES_PER_DAY), refresh_now) :
          /\ results' = Append(results, r)
          /\ IF r = UpdateFailed \/ r = None
             THEN /\ outcome' = UpdateFailed
                  /\ UNCHANGED data
             ELSE /\ outcome' = [kind |-> "ok"]
                  /\ data' = RceData(refresh_now, pending_today, r)
    /\ pc' = "idle"
    /\ pending_today' = None
    /\ UNCHANGED <<clock, ticks, refresh_now, seen, fetches>>
    /\ UNCHANGED optVars
    /\ UNCHANGED heaterVars
    /\ UNCHANGED <<adapterVars, jsonVars, emsVars, listenerVars, weatherVars>>

\* _full_update: the tomorrow fetch completes; the new RceData is returned
\* and async_refresh stores it in coordinator.data
TomorrowFetched ==
    /\ pc = "fetch_tomorrow"
    /\ \E r \in FetchResults(DateOf(refresh_now + MINUTES_PER_DAY), refresh_now) :
          /\ results' = Append(results, r)
          /\ IF r = UpdateFailed
             THEN /\ outcome' = UpdateFailed
                  /\ UNCHANGED data
             ELSE /\ outcome' = [kind |-> "ok"]
                  /\ data' = RceData(refresh_now, pending_today, r)
    /\ pc' = "idle"
    /\ pending_today' = None
    /\ UNCHANGED <<clock, ticks, refresh_now, seen, fetches>>
    /\ UNCHANGED optVars
    /\ UNCHANGED heaterVars
    /\ UNCHANGED <<adapterVars, jsonVars, emsVars, listenerVars, weatherVars>>

CacheInit ==
    /\ rce_prices = <<>>
    /\ ems_prices = None
    /\ day_data = None
    /\ ems_prices_2 = None
    /\ CoordinatorInit
    /\ WaterHeaterInit
    /\ AdapterInit
    /\ JsonInit
    /\ EmsInit
    /\ ListenersInit
    /\ WeatherInit

CacheNext == AdvanceClock \/ RefreshRequest \/ TodayFetched \/ TomorrowFetched

SpecCache == CacheInit /\ [][CacheNext]_vars

----------------------------------------------------------------------------
(* The load controller: WaterHeaterManager *)

Some(v) == [kind |-> "Some", v |-> v]
Signals(values) == {None} \cup {Some(v) : v \in values}

\* WaterHeaterManager._none_present
_none_present(state) ==
    \/ state.water_heater_is_on = None
    \/ state.battery_soc = None
    \/ state.battery_power_2_minutes = None
    \/ state.consumption_minus_pv_2_minutes = None
    \/ state.exported_energy_hourly = None

\* exported_energy_hourly * 1000, watt-hours from the thousandths of a kWh
WattHours(exported) == (exported * 1000) \div 1000

\* variant: the turn-on comparisons admit equality
Tier_AtLeast(battery_soc, pv_available, battery_power) ==
    IF battery_soc <= 89 * SOC_UNIT
    THEN <<pv_available >= 5200 - 1500, battery_power < 1900 - 1000>>
    ELSE IF battery_soc <= 96 * SOC_UNIT
    THEN <<pv_available >= 4500 - 1500, battery_power < 1000 - 900>>
    ELSE IF battery_soc \in {97 * SOC_UNIT, 98 * SOC_UNIT}
    THEN <<pv_available >= 3500, battery_power < 400 - 300>>
    ELSE IF battery_soc = 99 * SOC_UNIT
    THEN <<pv_available >= 3300, battery_power < 290 - 200>>
    ELSE IF battery_soc = 100 * SOC_UNIT
    THEN <<pv_available >= HEATER_POWER, pv_available < 0>>
    ELSE <<FALSE, FALSE>>

\* variant: in the 90..96 branch the battery never asks to turn off
Tier_KeepsOnBelow97(battery_soc, pv_available, battery_power) ==
    IF battery_soc <= 89 * SOC_UNIT
    THEN <<pv_available > 5200 - 1500, battery_power < 1900 - 1000>>
    ELSE IF battery_soc <= 96 * SOC_UNIT
    THEN <<pv_available > 4500 - 1500, FALSE>>
    ELSE IF battery_soc \in {97 * SOC_UNIT, 98 * SOC_UNIT}
    THEN <<pv_available > 3500, battery_power < 400 - 300>>
    ELSE IF battery_soc = 99 * SOC_UNIT
    THEN <<pv_available > 3300, battery_power < 290 - 200>>
    ELSE IF battery_soc = 100 * SOC_UNIT
    THEN <<pv_available > HEATER_POWER, pv_available < 0>>
    ELSE <<FALSE, FALSE>>

\* the if/elif chain on battery_soc; without a matching branch turn_on and
\* turn_off keep their initial False
Tier(battery_soc, pv_available, battery_power) ==
    IF battery_soc <= 89 * SOC_UNIT
    THEN <<pv_available > 5200 - 1500, battery_power < 1900 - 1000>>
    ELSE IF battery_soc <= 96 * SOC_UNIT
    THEN <<pv_available > 4500 - 1500, battery_power < 1000 - 900>>
    ELSE IF battery_soc \in {97 * SOC_UNIT, 98 * SOC_UNIT}
    THEN <<pv_available > 3500, battery_power < 400 - 300>>
    ELSE IF battery_soc = 99 * SOC_UNIT
    THEN <<pv_available > 3300, battery_power < 290 - 200>>
    ELSE IF battery_soc = 100 * SOC_UNIT
    THEN <<pv_available > HEATER_POWER, pv_available < 0>>
    ELSE <<FALSE, FALSE>>

\* variant: without the export override
Overrides_NoExportOverride(tier, battery_soc, exported_energy, pv_available, water_heater_is_on) ==
    IF battery_soc >= 90 * SOC_UNIT
    THEN IF exported_energy > 80 /\ water_heater_is_on
         THEN <<tier[1], FALSE>>
         ELSE tier
    ELSE tier

\* variant: the second override does not look at the relay
Overrides_IgnoresRelay(tier, battery_soc, exported_energy, pv_available, water_heater_is_on) ==
    IF battery_soc >= 90 * SOC_UNIT
    THEN LET first == IF exported_energy > 300 /\ pv_available > 0
                      THEN <<TRUE, FALSE>>
                      ELSE tier
         IN  IF exported_energy > 80
             THEN <<first[1], FALSE>>
             ELSE first
    ELSE tier

\* variant: the overrides apply from soc 89
Overrides_From89(tier, battery_soc, exported_energy, pv_available, water_heater_is_on) ==
    IF battery_soc >= 89 * SOC_UNIT
    THEN LET first == IF exported_energy > 300 /\ pv_available > 0
                      THEN <<TRUE, FALSE>>
                      ELSE tier
         IN  IF exported_energy > 80 /\ water_heater_is_on
             THEN <<first[1], FALSE>>
             ELSE first
    ELSE tier

\* variant: the export override sets turn_on and leaves turn_off to the tier
Overrides_ExportKeepsTurnOff(tier, battery_soc, exported_energy, pv_available, water_heater_is_on) ==
    IF battery_soc >= 90 * SOC_UNIT
    THEN LET first == IF exported_energy > 300 /\ pv_available > 0
                      THEN <<TRUE, tier[2]>>
                      ELSE tier
         IN  IF exported_energy > 80 /\ water_heater_is_on
             THEN <<first[1], FALSE>>
             ELSE first
    ELSE tier

\* the two overrides under "if battery_soc >= 90", applied one after the other
Overrides(tier, battery_soc, exported_energy, pv_available, water_heater_is_on) ==
    IF battery_soc >= 90 * SOC_UNIT
    THEN LET first == IF exported_energy > 300 /\ pv_available > 0
                      THEN <<TRUE, FALSE>>
                      ELSE tier
         IN  IF exported_energy > 80 /\ water_heater_is_on
             THEN <<first[1], FALSE>>
             ELSE first
    ELSE tier

\* variant: with a signal absent the outputs stay as they are
_update_HoldsOutputs(state) ==
    IF _none_present(state) THEN <<should_turn_on, should_turn_off>>
    ELSE LET water_heater_is_on == state.water_heater_is_on.v
             pv_available == -state.consumption_minus_pv_2_minutes.v
             battery_soc == state.battery_soc.v
             battery_power == -state.battery_power_2_minutes.v
             exported_energy == WattHours(state.exported_energy_hourly.v)
         IN  Overrides(Tier(battery_soc, pv_available, battery_power),
                       battery_soc, exported_energy, pv_available, water_heater_is_on)

\* variant: the heater also counts as on when should_turn_on is stored
_update_RelayFromOutputs(state) ==
    IF _none_present(state) THEN <<FALSE, FALSE>>
    ELSE LET water_heater_is_on == state.water_heater_is_on.v \/ should_turn_on
             pv_available == -state.consumption_minus_pv_2_minutes.v
             battery_soc == state.battery_soc.v
             battery_power == -state.battery_power_2_minutes.v
             exported_energy == WattHours(state.exported_energy_hourly.v)
         IN  Overrides(Tier(battery_soc, pv_available, battery_power),
                       battery_soc, exported_energy, pv_available, water_heater_is_on)

\* variant: turn_off is dropped whenever turn_on is set
_update_Exclusive(state) ==
    IF _none_present(state) THEN <<FALSE, FALSE>>
    ELSE LET water_heater_is_on == state.water_heater_is_on.v
             pv_available == -state.consumption_minus_pv_2_minutes.v
             battery_soc == state.battery_soc.v
             battery_power == -state.battery_power_2_minutes.v
             exported_energy == WattHours(state.exported_energy_hourly.v)
             result == Overrides(Tier(battery_soc, pv_available, battery_power),
                                 battery_soc, exported_energy, pv_available, water_heater_is_on)
         IN  <<result[1], result[2] /\ ~result[1]>>

\* WaterHeaterManager._update: (turn_on, turn_off)
_update(state) ==
    IF _none_present(state) THEN <<FALSE, FALSE>>
    ELSE LET water_heater_is_on == state.water_heater_is_on.v
             pv_available == -state.consumption_minus_pv_2_minutes.v
             battery_soc == state.battery_soc.v
             battery_power == -state.battery_power_2_minutes.v
             exported_energy == WattHours(state.exported_energy_hourly.v)
         IN  Overrides(Tier(battery_soc, pv_available, battery_power),
                       battery_soc, exported_energy, pv_available, water_heater_is_on)

\* WaterHeaterManager.update(state)
update(state) ==
    LET result == _update(state)
    IN  /\ prev_outputs' = <<should_turn_on, should_turn_off>>
        /\ input' = state
        /\ should_turn_on' = result[1]
        /\ should_turn_off' = result[2]

\* Ems._async_update_listeners, called by the Ems method `by`: the callback
\* of every registration is called once, in insertion order; `found` is the
\* pair of outputs a callback reads at that moment
_async_update_listeners(by, found) ==
    notifications' =
        [kind |-> "notified", by |-> by,
         invoked |-> [i \in 1..Len(listeners) |-> [listener |-> listeners[i], found |-> found]],
         registry |-> registry]

\* variant: the listeners are notified before the outputs are recomputed
update_state_NotifiesFirst(state) ==
    /\ _async_update_listeners("update_state", <<should_turn_on, should_turn_off>>)
    /\ update(state)

\* variant: the registration made last is not notified
update_state_SkipsLast(state) ==
    /\ update(state)
    /\ notifications' =
          [kind |-> "notified", by |-> "update_state",
           invoked |-> [i \in 1..(Len(listeners) - 1) |->
                           [listener |-> listeners[i],
                            found |-> <<should_turn_on', should_turn_off'>>]],
           registry |-> registry]

\* Ems.update_state(state)
update_state(state) ==
    /\ update(state)
    /\ _async_update_listeners("update_state", <<should_turn_on', should_turn_off'>>)

\* adapter.state_changed: one of the five host entities changes (to a
\* value, or to a state that maps to None); the snapshot is rebuilt from the
\* host states and handed to Ems.update_state -> WaterHeaterManager.update
StateChanged ==
    /\ \/ \E x \in Signals(BOOLEAN) : update_state([input EXCEPT !.water_heater_is_on = x])
       \/ \E x \in Signals(SocValues) : update_state([input EXCEPT !.battery_soc = x])
       \/ \E x \in Signals(BatteryPowerValues) : update_state([input EXCEPT !.battery_power_2_minutes = x])
       \/ \E x \in Signals(ConsumptionValues) : update_state([input EXCEPT !.consumption_minus_pv_2_minutes = x])
       \/ \E x \in Signals(ExportedValues) : update_state([input EXCEPT !.exported_energy_hourly = x])
    /\ UNCHANGED optVars
    /\ UNCHANGED cacheVars
    /\ UNCHANGED <<adapterVars, jsonVars, emsVars, listeners, registry, weatherVars>>

HeaterInit ==
    /\ rce_prices = <<>>
    /\ ems_prices = None
    /\ day_data = None
    /\ ems_prices_2 = None
    /\ CoordinatorInit
    /\ WaterHeaterInit
    /\ AdapterInit
    /\ JsonInit
    /\ EmsInit
    /\ ListenersInit
    /\ WeatherInit

HeaterNext == StateChanged

SpecHeater == HeaterInit /\ [][HeaterNext]_vars

----------------------------------------------------------------------------
(* The adapter from host states to the InputState: adapter.py.  A host      *)
(* state is None when the entity is not in the state machine, otherwise a   *)
(* State whose text is a sequence of characters.                            *)

State(text) == [kind |-> "State", state |-> text]
Str(text) == [kind |-> "str", s |-> text]
ValueError == [kind |-> "ValueError"]

TEXT_ON == <<"o", "n">>
TEXT_OFF == <<"o", "f", "f">>
TEXT_UNAVAILABLE == <<"u", "n", "a", "v", "a", "i", "l", "a", "b", "l", "e">>
TEXT_UNKNOWN == <<"u", "n", "k", "n", "o", "w", "n">>
TEXT_EMPTY == <<>>

\* the numerals the host reports for each numeric entity in the model
NumeralTexts(e) ==
    CASE e = "battery_soc" -> {<<"5", "0">>, <<"9", "5">>}
      [] e = "battery_power_2_minutes" -> {<<"-", "5", "0">>, <<"0">>}
      [] e = "consumption_minus_pv_2_minutes" -> {<<"-", "4", "0", "0", "0">>, <<"0">>}
      [] e = "exported_energy_hourly" -> {<<"0", ".", "3", "5">>, <<"0">>}

\* the texts a host state of the entity has in the model
HostTexts(e) ==
    IF e = "water_heater_is_on"
    THEN {TEXT_ON, TEXT_OFF, TEXT_UNKNOWN}
    ELSE NumeralTexts(e) \cup {TEXT_UNAVAILABLE, TEXT_EMPTY}
HostStates(e) == {None} \cup {State(t) : t \in HostTexts(e)}

DigitOf(c) ==
    CASE c = "0" -> 0 [] c = "1" -> 1 [] c = "2" -> 2 [] c = "3" -> 3 [] c = "4" -> 4
      [] c = "5" -> 5 [] c = "6" -> 6 [] c = "7" -> 7 [] c = "8" -> 8 [] c = "9" -> 9
      [] OTHER -> -1
IsDigits(t) == Len(t) > 0 /\ \A i \in 1..Len(t) : DigitOf(t[i]) >= 0
RECURSIVE DigitsValue(_)
DigitsValue(t) ==
    IF t = <<>> THEN 0
    ELSE 10 * DigitsValue(SubSeq(t, 1, Len(t) - 1)) + DigitOf(t[Len(t)])
RECURSIVE Pow10(_)
Pow10(n) == IF n = 0 THEN 1 ELSE 10 * Pow10(n - 1)

\* float(text) for a decimal numeral "[-]digits[.digits]" with at most three
\* fractional digits, as a number of thousandths; any other text of the
\* model raises ValueError
float(text) ==
    LET negative == Len(text) > 0 /\ text[1] = "-"
        body == IF negative THEN Tail(text) ELSE text
        dots == {i \in 1..Len(body) : body[i] = "."}
        sign == IF negative THEN -1 ELSE 1
    IN  IF dots = {}
        THEN IF IsDigits(body)
             THEN [kind |-> "float", milli |-> sign * 1000 * DigitsValue(body)]
             ELSE ValueError
        ELSE IF Cardinality(dots) = 1
        THEN LET d == CHOOSE i \in dots : TRUE
                 whole == SubSeq(body, 1, d - 1)
                 frac == SubSeq(body, d + 1, Len(body))
             IN  IF IsDigits(whole) /\ IsDigits(frac) /\ Len(frac) <= 3
                 THEN [kind |-> "float",
                       milli |-> sign * (1000 * DigitsValue(whole)
                                         + DigitsValue(frac) * Pow10(3 - Len(frac)))]
                 ELSE ValueError
        ELSE ValueError

\* adapter.map_on_off: "on" -> True, "off" -> False, anything else -> None
map_on_off(value) ==
    IF value = None THEN None
    ELSE IF value.s = TEXT_ON THEN Some(TRUE)
    ELSE IF value.s = TEXT_OFF THEN Some(FALSE)
    ELSE None

\* variant: a state that cannot be parsed counts as 0
map_float_DefaultsToZero(value) ==
    IF value = None THEN [kind |-> "float", milli |-> 0]
    ELSE LET parsed == float(value.s)
         IN  IF parsed = ValueError THEN [kind |-> "float", milli |-> 0] ELSE parsed

\* adapter.map_float: float(value), or None on ValueError (a text that is no
\* number) and on TypeError (value is None)
map_float(value) ==
    IF value = None THEN None
    ELSE LET parsed == float(value.s)
         IN  IF parsed = ValueError THEN None ELSE parsed

\* how many units of the InputState field make one unit of the host's value:
\* battery_soc is kept in 1/SOC_UNIT percent, exported_energy_hourly in
\* thousandths of a kWh, the powers in watts
UnitsOf(e) ==
    CASE e = "battery_soc" -> SOC_UNIT
      [] e = "exported_energy_hourly" -> 1000
      [] OTHER -> 1

\* the setter of HASS_STATE_MAPPER[e]: the signal it stores in the field
Setter(e, value) ==
    IF e = "water_heater_is_on" THEN map_on_off(value)
    ELSE LET mapped == map_float(value)
         IN  IF mapped = None THEN None
             ELSE Some((mapped.milli * UnitsOf(e)) \div 1000)

\* adapter.update_input_state on a fresh InputState(): an entity that is
\* not in the state machine leaves its field None
FieldFrom(states, e) ==
    IF states[e] = None THEN None ELSE Setter(e, Str(states[e].state))
update_input_state(states) ==
    InputState(FieldFrom(states, "water_heater_is_on"),
               FieldFrom(states, "battery_soc"),
               FieldFrom(states, "battery_power_2_minutes"),
               FieldFrom(states, "consumption_minus_pv_2_minutes"),
               FieldFrom(states, "exported_energy_hourly"))

\* adapter.hass_started: the listener is registered and the first snapshot
\* is handed to Ems.update_state
HassStarted ==
    /\ ~started
    /\ started' = TRUE
    /\ update_state(update_input_state(hass_states))
    /\ UNCHANGED hass_states
    /\ UNCHANGED <<optVars, cacheVars, jsonVars, emsVars, listeners, registry, weatherVars>>

\* adapter.state_changed: the host has set entity e to new_state (None when
\* the entity was removed); the snapshot is rebuilt from hass.states, the
\* field of e is set from the event, and Ems.update_state is called
HostStateChanged ==
    /\ started
    /\ \E e \in Entities : \E new_state \in HostStates(e) :
          /\ hass_states' = [hass_states EXCEPT ![e] = new_state]
          /\ LET input_state == update_input_state(hass_states')
                 value == IF new_state = None THEN None ELSE Str(new_state.state)
             IN  update_state([input_state EXCEPT ![e] = Setter(e, value)])
    /\ UNCHANGED started
    /\ UNCHANGED <<optVars, cacheVars, jsonVars, emsVars, listeners, registry, weatherVars>>

\* at start-up the host holds any states for the five entities
AdapterSpecInit ==
    /\ rce_prices = <<>>
    /\ ems_prices = None
    /\ day_data = None
    /\ ems_prices_2 = None
    /\ CoordinatorInit
    /\ WaterHeaterInit
    /\ JsonInit
    /\ EmsInit
    /\ ListenersInit
    /\ WeatherInit
    /\ started = FALSE
    /\ \E a \in HostStates("water_heater_is_on"), b \in HostStates("battery_soc"),
          c \in HostStates("battery_power_2_minutes"),
          d \in HostStates("consumption_minus_pv_2_minutes"),
          f \in HostStates("exported_energy_hourly") :
          hass_states = ("water_heater_is_on" :> a) @@ ("battery_soc" :> b)
                        @@ ("battery_power_2_minutes" :> c)
                        @@ ("consumption_minus_pv_2_minutes" :> d)
                        @@ ("exported_energy_hourly" :> f)

AdapterNext == HassStarted \/ HostStateChanged

SpecAdapter == AdapterSpecInit /\ [][AdapterNext]_vars

----------------------------------------------------------------------------
(* Parsing an API response: RceDayPrices.create_from_json (domain/rce.py)    *)
(* and the parser inside the first RceApi.async_get_prices (rce_api.py).     *)
(* A record of data["value"] prices one period of the day: the period starts *)
(* at hour:minute, the first five characters of "udtczas_oreb", and ends     *)
(* period minutes later, at "udtczas".  rce_pln is hour * 100 + minute, so   *)
(* that a price tells which record it came from.                             *)

NoHour == -1
\* the hour the response has no record of, the hour it has twice, and the
\* length of a period in minutes
MissingHours == {NoHour} \cup (0..(DAY_HOURS - 1))
RepeatedHours == {NoHour, 2}
PeriodLengths == {15, 30, 60}

\* price["source_datetime"], a non-empty string
SOURCE_DATETIME == [kind |-> "source_datetime"]

Record(hour, minute, period) ==
    [hour |-> hour, minute |-> minute, period |-> period,
     source_datetime |-> SOURCE_DATETIME, rce_pln |-> hour * 100 + minute]

DayHours(missing, repeated) ==
    LET base == SelectSeq([i \in 1..DAY_HOURS |-> i - 1], LAMBDA h : h # missing)
    IN  IF repeated = NoHour THEN base ELSE base \o <<repeated>>

HourRecords(hour, period) ==
    [k \in 1..(60 \div period) |-> Record(hour, (k - 1) * period, period)]

RECURSIVE DayRecords(_, _)
DayRecords(hours, period) ==
    IF hours = <<>> THEN <<>>
    ELSE HourRecords(Head(hours), period) \o DayRecords(Tail(hours), period)

JsonResponses ==
    {<<>>} \cup {DayRecords(DayHours(missing, repeated), period) :
                    missing \in MissingHours, repeated \in RepeatedHours,
                    period \in PeriodLengths}

\* datetime.fromisoformat(f"{date} {hour}") with hour = price["udtczas_oreb"][:5]:
\* the start of the period
date_hour(price) == [hour |-> price.hour, minute |-> price.minute]

\* datetime.fromisoformat(price["udtczas"]): the end of the period
udtczas(price) ==
    LET minutes == price.hour * 60 + price.minute + price.period
    IN  [hour |-> (minutes \div 60) % DAY_HOURS, minute |-> minutes % 60]

\* the last record's source_datetime, None when there is no record
published_at(value) ==
    IF value = <<>> THEN None ELSE value[Len(value)].source_datetime

\* RceDayPrices.create_from_json(data), value being data["value"]
create_from_json(value) ==
    LET kept == SelectSeq(value, LAMBDA price : date_hour(price).minute = 0)
        prices == [i \in 1..Len(kept) |->
                      [datetime |-> [hour |-> date_hour(kept[i]).hour, minute |-> 0],
                       price |-> kept[i].rce_pln]]
    IN  IF published_at(value) = None THEN None
        ELSE [kind |-> "RceDayPrices", module |-> "domain.rce",
              published_at |-> published_at(value), prices |-> prices]

\* the parsing of rce_api.RceApi.async_get_prices after a response with
\* status 200
async_get_prices(value) ==
    LET kept == SelectSeq(value, LAMBDA price : udtczas(price).minute = 15)
        prices == [i \in 1..Len(kept) |->
                      [datetime |-> [hour |-> udtczas(kept[i]).hour, minute |-> 0],
                       price |-> kept[i].rce_pln]]
    IN  IF published_at(value) = None THEN None
        ELSE [kind |-> "RceDayPrices", module |-> "rce_api",
              published_at |-> published_at(value), prices |-> prices]

CreateFromJson ==
    /\ rce_day = NotCalled
    /\ rce_day' = create_from_json(json_data)
    /\ UNCHANGED json_data
    /\ UNCHANGED <<optVars, cacheVars, heaterVars, adapterVars, emsVars, listenerVars, weatherVars>>

AsyncGetPrices ==
    /\ rce_day = NotCalled
    /\ rce_day' = async_get_prices(json_data)
    /\ UNCHANGED json_data
    /\ UNCHANGED <<optVars, cacheVars, heaterVars, adapterVars, emsVars, listenerVars, weatherVars>>

\* any response of JsonResponses has arrived and is not parsed yet
JsonSpecInit ==
    /\ rce_prices = <<>>
    /\ ems_prices = None
    /\ day_data = None
    /\ ems_prices_2 = None
    /\ CoordinatorInit
    /\ WaterHeaterInit
    /\ AdapterInit
    /\ EmsInit
    /\ ListenersInit
    /\ WeatherInit
    /\ json_data \in JsonResponses
    /\ rce_day = NotCalled

JsonNext == CreateFromJson \/ AsyncGetPrices

SpecJson == JsonSpecInit /\ [][JsonNext]_vars

----------------------------------------------------------------------------
(* The Ems object (domain/ems.py): the plans of today and tomorrow and the   *)
(* current price, updated by update_rce and update_hourly.                   *)

\* now.hour of the calls
NowHours == {0, 13, 23}

\* three days of 24 prices: the first two give a plan of 8 hours, the third
\* one of 3 hours
Rising == [i \in 1..DAY_HOURS |-> 100 + (i - 1)]
Falling == [i \in 1..DAY_HOURS |-> 150 - (i - 1)]
Dip == [i \in 1..DAY_HOURS |->
           IF i - 1 \in 6..8 THEN 0 ELSE IF i - 1 = 9 THEN 1000 ELSE 10 + (i - 1)]

\* an RceDayPrices with its prices, as find_charge_hours reads it
DayOf(prices) == [kind |-> "RceDayPrices", prices |-> prices]

TodaySeries == {None, DayOf(Rising), DayOf(Falling), DayOf(Dip)}
TomorrowSeries == {None, DayOf(Falling), DayOf(Dip)}
\* the data of a call: None or an RceData (Ems does not read fetched_at)
RceDatas ==
    {None} \cup {RceData(StartClock, today, tomorrow) :
                    today \in TodaySeries, tomorrow \in TomorrowSeries}

IndexError == [kind |-> "IndexError"]

\* EmsDayData.create(find_charge_hours(day)), or the exception it raises
CreatePlan(day) ==
    LET prices == find_charge_hours(day.prices)
    IN  IF IsError(prices) THEN prices ELSE EmsDayData_create(prices)

\* find_charge_hours and EmsDayData.create read nothing but the day: the
\* plans of the three days are computed once
Plans ==
    (Rising :> CreatePlan(DayOf(Rising))) @@ (Falling :> CreatePlan(DayOf(Falling)))
    @@ (Dip :> CreatePlan(DayOf(Dip)))
Plan(day) == Plans[day.prices]

Raised(x) == IsError(x) \/ x = IndexError

\* what a call leaves: the Ems object, the exception that ended the call (or
\* None) and the number of calls of _async_update_listeners
Outcome(e, raised, notified) == [ems |-> e, raised |-> raised, notified |-> notified]

\* Ems.update_hourly(now)
update_hourly(e, hour) ==
    IF e.today.hour_price = None THEN Outcome(e, None, 0)
    ELSE IF hour + 1 > Len(e.today.hour_price) THEN Outcome(e, IndexError, 0)
    ELSE Outcome([e EXCEPT !.current_price = Some(e.today.hour_price[hour + 1])], None, 1)

\* variant: without a today series in data the today plan is cleared
update_rce_ClearsToday(e, hour, rce_data) ==
    IF rce_data = None THEN Outcome(e, None, 0)
    ELSE LET e1 == [e EXCEPT !.rce_data = rce_data]
             today == IF rce_data.today # None THEN Plan(rce_data.today)
                      ELSE EmsDayData_empty
         IN  IF Raised(today) THEN Outcome(e1, today, 0)
             ELSE LET e2 == [e1 EXCEPT !.today = today]
                      tomorrow == IF rce_data.tomorrow # None THEN Plan(rce_data.tomorrow)
                                  ELSE EmsDayData_empty
                  IN  IF Raised(tomorrow) THEN Outcome(e2, tomorrow, 0)
                      ELSE update_hourly([e2 EXCEPT !.tomorrow = tomorrow], hour)

\* Ems.update_rce(now, data)
update_rce(e, hour, rce_data) ==
    IF rce_data = None THEN Outcome(e, None, 0)
    ELSE LET e1 == [e EXCEPT !.rce_data = rce_data]
             today == IF rce_data.today # None THEN Plan(rce_data.today) ELSE e.today
         IN  IF Raised(today) THEN Outcome(e1, today, 0)
             ELSE LET e2 == [e1 EXCEPT !.today = today]
                      tomorrow == IF rce_data.tomorrow # None THEN Plan(rce_data.tomorrow)
                                  ELSE EmsDayData_empty
                  IN  IF Raised(tomorrow) THEN Outcome(e2, tomorrow, 0)
                      ELSE update_hourly([e2 EXCEPT !.tomorrow = tomorrow], hour)

Call(method, hour, rce_data, out) ==
    [kind |-> "call", method |-> method, hour |-> hour, data |-> rce_data,
     price_before |-> ems.current_price, before |-> ems,
     raised |-> out.raised, notified |-> out.notified]

UpdateHourly ==
    /\ \E hour \in NowHours :
          LET out == update_hourly(ems, hour)
          IN  /\ ems' = out.ems
              /\ ems_call' = Call("update_hourly", hour, None, out)
              /\ IF out.notified = 1
                 THEN _async_update_listeners("update_hourly", <<should_turn_on, should_turn_off>>)
                 ELSE UNCHANGED notifications
    /\ UNCHANGED <<optVars, cacheVars, heaterVars, adapterVars, jsonVars, listeners, registry, weatherVars>>

UpdateRce ==
    /\ \E hour \in NowHours, rce_data \in RceDatas :
          LET out == update_rce(ems, hour, rce_data)
          IN  /\ ems' = out.ems
              /\ ems_call' = Call("update_rce", hour, rce_data, out)
              /\ IF out.notified = 1
                 THEN _async_update_listeners("update_rce", <<should_turn_on, should_turn_off>>)
                 ELSE UNCHANGED notifications
    /\ UNCHANGED <<optVars, cacheVars, heaterVars, adapterVars, jsonVars, listeners, registry, weatherVars>>

EmsSpecInit ==
    /\ rce_prices = <<>>
    /\ ems_prices = None
    /\ day_data = None
    /\ ems_prices_2 = None
    /\ CoordinatorInit
    /\ WaterHeaterInit
    /\ AdapterInit
    /\ JsonInit
    /\ EmsInit
    /\ ListenersInit
    /\ WeatherInit

EmsNext == UpdateHourly \/ UpdateRce

SpecEms == EmsSpecInit /\ [][EmsNext]_vars

----------------------------------------------------------------------------
(* The listeners of the Ems object (domain/ems.py): async_add_listener       *)
(* returns the remove function of the registration it makes, and             *)
(* update_state notifies the registrations after WaterHeaterManager.update.  *)
(* A registration is named by the number of its async_add_listener call.     *)

\* the number of async_add_listener calls
MaxListeners == 3

\* the telemetry of the update_state calls: no signal, and snapshots with
\* every signal present
TelemetryStates ==
    {InputState(None, None, None, None, None)} \cup
    {InputState(Some(FALSE), Some(soc), Some(-50), Some(consumption), Some(0)) :
        soc \in {89 * SOC_UNIT, 100 * SOC_UNIT}, consumption \in {1, -3701}}

\* Ems.async_add_listener(update_callback)
async_add_listener(id) ==
    /\ listeners' = Append(listeners, id)
    /\ registry' = [registry EXCEPT !.added = @ \cup {id}]

\* variant: the remove function leaves the registration in place
remove_listener_KeepsListener(id) ==
    /\ listeners' = listeners
    /\ registry' = [registry EXCEPT !.removed = @ \cup {id}]

\* the remove_listener of registration id: self._listeners.pop(remove_listener),
\* which raises KeyError and changes nothing when the key is gone
remove_listener(id) ==
    /\ listeners' = SelectSeq(listeners, LAMBDA l : l # id)
    /\ registry' = [registry EXCEPT !.removed = @ \cup {id}]

AddListener ==
    /\ Cardinality(registry.added) < MaxListeners
    /\ async_add_listener(Cardinality(registry.added) + 1)
    /\ UNCHANGED notifications
    /\ UNCHANGED <<optVars, cacheVars, heaterVars, adapterVars, jsonVars, emsVars, weatherVars>>

RemoveListener ==
    /\ \E id \in registry.added : remove_listener(id)
    /\ UNCHANGED notifications
    /\ UNCHANGED <<optVars, cacheVars, heaterVars, adapterVars, jsonVars, emsVars, weatherVars>>

UpdateState ==
    /\ \E state \in TelemetryStates : update_state(state)
    /\ UNCHANGED <<listeners, registry>>
    /\ UNCHANGED <<optVars, cacheVars, adapterVars, jsonVars, emsVars, weatherVars>>

ListenersSpecInit ==
    /\ rce_prices = <<>>
    /\ ems_prices = None
    /\ day_data = None
    /\ ems_prices_2 = None
    /\ CoordinatorInit
    /\ WaterHeaterInit
    /\ AdapterInit
    /\ JsonInit
    /\ EmsInit
    /\ ListenersInit
    /\ WeatherInit

ListenersNext == AddListener \/ RemoveListener \/ UpdateState

SpecListeners == ListenersSpecInit /\ [][ListenersNext]_vars

----------------------------------------------------------------------------
(* The WeatherListenerCoordinator (weather_listener.py) and the weather      *)
(* entity it subscribes to.  A registration is named by the number of the   *)
(* _register_for_weather_updates call that made it; its forecast_listener    *)
(* and its unsubscribe_callback carry that number.  weather.subscriptions    *)
(* holds the forecast listeners the weather entities keep, on_remove the     *)
(* callbacks the current entity runs when it is removed.  No listener is     *)
(* ever added to the coordinator itself, so its _async_update_listeners      *)
(* has nothing to call.                                                      *)

\* the number of weather entities added, and of registrations made
MaxEntities == 2
MaxRegistrations == 3

\* entity states of the state change events; "None" is a missing state object
WeatherStates == {"unavailable", "None", "sunny"}
UNAVAILABLE_STATES == {"unknown", "unavailable", "", "None"}

\* hourly forecasts: datetime counts hours, condition tells two issues apart
Hour(datetime, condition) == [datetime |-> datetime, condition |-> condition]
Forecasts ==
    { <<Hour(12, "a"), Hour(13, "a"), Hour(14, "a")>>,
      <<Hour(13, "a"), Hour(14, "a")>>,
      <<Hour(13, "b"), Hour(14, "b")>>,
      <<Hour(24, "a"), Hour(25, "a")>> }

\* forecast_first_hour.date()
forecast_day(forecast) == forecast[1].datetime \div DAY_HOURS

\* last_hourly_forecast[len_difference:]
From(seq, n) == SubSeq(seq, n + 1, Len(seq))

\* WeatherListenerCoordinator._save_forecast_to_file
_save_forecast_to_file(w, forecast) ==
    [w EXCEPT !._last_hourly_forecast = Some(forecast),
              !._last_hourly_forecast_day = Some(forecast_day(forecast))]

\* WeatherListenerCoordinator._has_hourly_forecast_changed: the coordinator
\* after the call
_has_hourly_forecast_changed(w, forecast) ==
    IF w._last_hourly_forecast = None
    THEN _save_forecast_to_file(w, forecast)
    ELSE LET last_hourly_forecast == w._last_hourly_forecast.v
             len_difference == Len(last_hourly_forecast) - Len(forecast)
         IN  IF Some(forecast_day(forecast)) # w._last_hourly_forecast_day
             THEN _save_forecast_to_file(w, forecast)
             ELSE IF len_difference = 0
             THEN IF forecast # last_hourly_forecast
                  THEN _save_forecast_to_file(w, forecast)
                  ELSE w
             ELSE IF len_difference > 0
             THEN IF forecast # From(last_hourly_forecast, len_difference)
                  THEN _save_forecast_to_file(w, forecast)
                  ELSE w
             ELSE _save_forecast_to_file(w, forecast)

\* variant: the forecast listener does not look at _shutdown_requested
forecast_listener_IgnoresShutdown(w, forecast) ==
    LET saved == _has_hourly_forecast_changed(w, forecast)
    IN  IF saved.forecast_hourly # Some(forecast)
        THEN [saved EXCEPT !.forecast_hourly = Some(forecast)]
        ELSE saved

\* the forecast_listener of a registration
forecast_listener(w, forecast) ==
    IF ~w._shutdown_requested
    THEN LET saved == _has_hourly_forecast_changed(w, forecast)
         IN  IF saved.forecast_hourly # Some(forecast)
             THEN [saved EXCEPT !.forecast_hourly = Some(forecast)]
             ELSE saved
    ELSE w

\* the unsubscribe_callback of registration id
unsubscribe_callback(w, id) ==
    IF w._unsubscribe_callback = id
    THEN [w EXCEPT !.subscriptions = {s \in @ : s.registration # id},
                   !._unsubscribe_callback = NoCallback]
    ELSE w

\* WeatherListenerCoordinator._unregister_weather_updates
_unregister_weather_updates(w) ==
    IF w._unsubscribe_callback # NoCallback
    THEN unsubscribe_callback(w, w._unsubscribe_callback)
    ELSE w

\* variant: registering again leaves the current subscription in place
_register_for_weather_updates_KeepsCurrent(w) ==
    IF w.entity # NoEntity
    THEN LET id == w.registrations + 1
         IN  [w EXCEPT !.registrations = id,
                       !.subscriptions = @ \cup {[registration |-> id, entity |-> w.entity]},
                       !._unsubscribe_callback = id,
                       !.on_remove = Append(@, id)]
    ELSE w

\* WeatherListenerCoordinator._register_for_weather_updates
_register_for_weather_updates(w) ==
    IF w.entity # NoEntity
    THEN LET unregistered == _unregister_weather_updates(w)
             id == unregistered.registrations + 1
         IN  [unregistered EXCEPT
                 !.registrations = id,
                 !.subscriptions = @ \cup {[registration |-> id, entity |-> w.entity]},
                 !._unsubscribe_callback = id,
                 !.on_remove = Append(@, id)]
    ELSE w

\* hass_started
hass_started(w) ==
    _register_for_weather_updates([w EXCEPT !._hass_started = TRUE])

\* weather_state_changed
weather_state_changed(w, old_state, new_state) ==
    IF /\ old_state \in UNAVAILABLE_STATES
       /\ new_state \notin UNAVAILABLE_STATES
       /\ w._hass_started
    THEN _register_for_weather_updates(w)
    ELSE w

\* WeatherListenerCoordinator._shutdown
_shutdown(w) ==
    _unregister_weather_updates([w EXCEPT !._shutdown_requested = TRUE])

\* the removed entity runs its on_remove callbacks, the latest first
RECURSIVE RunOnRemove(_, _)
RunOnRemove(w, callbacks) ==
    IF callbacks = <<>>
    THEN w
    ELSE RunOnRemove(unsubscribe_callback(w, callbacks[Len(callbacks)]),
                     SubSeq(callbacks, 1, Len(callbacks) - 1))

WeatherEvent(event, detail) == [event |-> event, detail |-> detail, before |-> weather]

\* EVENT_HOMEASSISTANT_STARTED reaches hass_started, once; the listener of
\* async_listen_once is not among the callbacks the entry runs on unload
WeatherHassStarted ==
    /\ ~weather._hass_started
    /\ weather.registrations < MaxRegistrations
    /\ weather' = hass_started(weather)
    /\ weather_event' = WeatherEvent("start", "")
    /\ UNCHANGED <<optVars, cacheVars, heaterVars, adapterVars, jsonVars, emsVars, listenerVars>>

\* a state change event of the weather entity reaches weather_state_changed;
\* the entry cancels the tracking when it is unloaded
WeatherStateChanged ==
    /\ ~weather._shutdown_requested
    /\ weather.registrations < MaxRegistrations
    /\ \E old_state, new_state \in WeatherStates :
          /\ old_state # new_state
          /\ weather' = weather_state_changed(weather, old_state, new_state)
          /\ weather_event' = WeatherEvent("state_changed", <<old_state, new_state>>)
    /\ UNCHANGED <<optVars, cacheVars, heaterVars, adapterVars, jsonVars, emsVars, listenerVars>>

\* the weather platform adds its entity
WeatherEntityAdded ==
    /\ weather.entity = NoEntity
    /\ weather.entities < MaxEntities
    /\ weather' = [weather EXCEPT !.entity = weather.entities + 1,
                                  !.entities = @ + 1]
    /\ weather_event' = WeatherEvent("entity_added", "")
    /\ UNCHANGED <<optVars, cacheVars, heaterVars, adapterVars, jsonVars, emsVars, listenerVars>>

\* the weather entity is removed and runs what async_on_remove collected
WeatherEntityRemoved ==
    /\ weather.entity # NoEntity
    /\ weather' = [RunOnRemove(weather, weather.on_remove) EXCEPT
                      !.entity = NoEntity,
                      !.on_remove = <<>>]
    /\ weather_event' = WeatherEvent("entity_removed", "")
    /\ UNCHANGED <<optVars, cacheVars, heaterVars, adapterVars, jsonVars, emsVars, listenerVars>>

\* the weather entity hands an hourly forecast to the listeners subscribed to it
ForecastUpdated ==
    /\ weather.entity # NoEntity
    /\ \E forecast \in Forecasts :
          /\ weather' =
                IF \E s \in weather.subscriptions : s.entity = weather.entity
                THEN forecast_listener(weather, forecast)
                ELSE weather
          /\ weather_event' = WeatherEvent("forecast", forecast)
    /\ UNCHANGED <<optVars, cacheVars, heaterVars, adapterVars, jsonVars, emsVars, listenerVars>>

\* the config entry is unloaded and runs _shutdown
WeatherShutdown ==
    /\ ~weather._shutdown_requested
    /\ weather' = _shutdown(weather)
    /\ weather_event' = WeatherEvent("shutdown", "")
    /\ UNCHANGED <<optVars, cacheVars, heaterVars, adapterVars, jsonVars, emsVars, listenerVars>>

WeatherSpecInit ==
    /\ rce_prices = <<>>
    /\ ems_prices = None
    /\ day_data = None
    /\ ems_prices_2 = None
    /\ CoordinatorInit
    /\ WaterHeaterInit
    /\ AdapterInit
    /\ JsonInit
    /\ EmsInit
    /\ ListenersInit
    /\ WeatherInit

WeatherNext ==
    \/ WeatherHassStarted
    \/ WeatherStateChanged
    \/ WeatherEntityAdded
    \/ WeatherEntityRemoved
    \/ ForecastUpdated
    \/ WeatherShutdown

SpecWeather == WeatherSpecInit /\ [][WeatherNext]_vars

----------------------------------------------------------------------------
(* Properties of the optimizer.  A plan is the EmsDayPrices returned by      *)
(* find_charge_hours with the start and end hour its methods report.        *)

FullDay == Len(rce_prices) = DAY_HOURS
Planned == ems_prices.kind = "EmsDayPrices"
AllEqual == \A i, j \in 1..Len(rce_prices) : rce_prices[i] = rce_prices[j]

windowLengthHours == ems_prices.best_consecutive_hours
bestStart == ems_prices.start_charge_hours
\* reported start and end hour, in half hours
startHour2 == best_start_charge_hour(ems_prices)
endHour2 == best_end_charge_hour(ems_prices)
\* the reported start hour rounded down and rounded up to an integer
FloorStartHour == startHour2 \div 2
CeilStartHour == (startHour2 + 1) \div 2

\* sum of the prices of the window [s, s + L) of a full day
WindowSum(s, L) == SumHours(rce_prices, s, s + L)

\* C1 as stated: when all 24 prices are equal the plan is length 3, start
\* 5.5, end 9.
C1_AllEqualGivesShortest ==
    (FullDay /\ Planned /\ AllEqual) =>
        /\ windowLengthHours = 3
        /\ startHour2 = 11
        /\ endHour2 = 18

\* C1 amended: when all 24 prices are equal every length has its best start
\* at hour 6, each longer length is adopted at the same start, and the plan
\* is length 8, start 6, end 14.
C1_AllEqualGivesLongest ==
    (FullDay /\ Planned /\ AllEqual) =>
        /\ \A L \in 3..8 : bestStart[L] = 6
        /\ windowLengthHours = 8
        /\ startHour2 = 12
        /\ endHour2 = 28

C1_Witness == FullDay /\ Planned /\ AllEqual

\* C2 as stated: for every 24-entry series the window length is in 3..8 and
\* the reported start hour rounded down is in 6..15.
C2_FloorStartFrom6 ==
    (FullDay /\ Planned) =>
        /\ windowLengthHours \in 3..8
        /\ FloorStartHour \in 6..15

\* C2 amended: the window length is in 3..8; the reported start hour rounded
\* down is in 6..15 for the lengths 4..8 and in 5..14 for length 3, whose
\* start is reported half an hour early.
C2_FloorStartFrom5 ==
    (FullDay /\ Planned) =>
        /\ windowLengthHours \in 3..8
        /\ windowLengthHours # 3 => FloorStartHour \in 6..15
        /\ windowLengthHours = 3 => FloorStartHour \in 5..14

\* a length-3 plan at the first scanned hour: reported start 5.5
C2_Witness ==
    FullDay /\ Planned /\ windowLengthHours = 3 /\ FloorStartHour = 5

\* C3: for every 24-entry series and every length L in 3..8, bestStart[L] is
\* a start hour in 6..15 of minimum window mean, and every earlier start hour
\* has a strictly higher mean (the smallest minimiser is recorded).
C3_SmallestMinimiser ==
    (FullDay /\ Planned) =>
        \A L \in 3..8 :
            /\ bestStart[L] \in 6..15
            /\ \A s \in 6..15 :
                  /\ WindowSum(bestStart[L], L) <= WindowSum(s, L)
                  /\ s < bestStart[L] => WindowSum(bestStart[L], L) < WindowSum(s, L)

\* a plan in which a later start hour ties with the recorded one
C3_Witness ==
    /\ FullDay /\ Planned
    /\ \E L \in 3..8 : \E s \in 6..15 :
          /\ s > bestStart[L]
          /\ WindowSum(s, L) = WindowSum(bestStart[L], L)

\* the one-pass fold of the spec over L = 4..8; `moves` says whether adopting
\* L makes bestStart[L] the winner hour of the later comparisons
RECURSIVE OnePassFold(_, _, _, _, _)
OnePassFold(L, winner, winnerHour, capPrice, moves) ==
    IF L > 8 THEN winner
    ELSE LET candidateHour == bestStart[L]
             adopt == \/ candidateHour = winnerHour
                      \/ /\ candidateHour < winnerHour
                         /\ \/ rce_prices[candidateHour + 1] < 100
                            \/ rce_prices[candidateHour + 1] - capPrice < 45
         IN  OnePassFold(L + 1,
                         IF adopt THEN L ELSE winner,
                         IF adopt /\ moves THEN candidateHour ELSE winnerHour,
                         capPrice, moves)

\* max price over the hours [bestStart[3], bestStart[3] + 3)
CapPrice ==
    LET ps == {rce_prices[h + 1] : h \in bestStart[3]..(bestStart[3] + 2)}
    IN  CHOOSE m \in ps : \A x \in ps : x <= m

\* C4 as stated: the chosen length is the fold in which an adopted length's
\* start hour becomes the winner hour used by the later comparisons.
C4_FoldWithMovingWinnerHour ==
    (FullDay /\ Planned) =>
        windowLengthHours = OnePassFold(4, 3, bestStart[3], CapPrice, TRUE)

\* C4 amended: the chosen length is the fold in which every candidate is
\* compared with bestStart[3]; the hour compared against does not move when a
\* longer length is adopted.
C4_FoldWithFixedWinnerHour ==
    (FullDay /\ Planned) =>
        windowLengthHours = OnePassFold(4, 3, bestStart[3], CapPrice, FALSE)

\* a plan on which the two folds choose different lengths
C4_Witness ==
    /\ FullDay /\ Planned
    /\ OnePassFold(4, 3, bestStart[3], CapPrice, TRUE)
         # OnePassFold(4, 3, bestStart[3], CapPrice, FALSE)

\* C5: the reported start hour is bestStart[winner] - 0.5 for length 3 and
\* bestStart[winner] for every other length; the reported end hour is
\* bestStart[winner] + winner in both cases.
C5_ReportedHours ==
    (FullDay /\ Planned) =>
        /\ windowLengthHours = 3 => startHour2 = 2 * bestStart[3] - 1
        /\ windowLengthHours # 3 => startHour2 = 2 * bestStart[windowLengthHours]
        /\ endHour2 = 2 * (bestStart[windowLengthHours] + windowLengthHours)

C5_Witness == FullDay /\ Planned /\ windowLengthHours = 3 /\ bestStart[3] > 6

\* C6 as stated: the end hour is the reported start hour rounded down plus
\* the window length.
C6_EndFromFloorOfStart ==
    (FullDay /\ Planned) =>
        endHour2 = 2 * (FloorStartHour + windowLengthHours)

\* C6 amended: the end hour is the reported start hour rounded up plus the
\* window length; rounding down gives the same hour exactly when the length
\* is not 3.
C6_EndFromCeilOfStart ==
    (FullDay /\ Planned) =>
        /\ endHour2 = 2 * (CeilStartHour + windowLengthHours)
        /\ (endHour2 = 2 * (FloorStartHour + windowLengthHours)) <=> (windowLengthHours # 3)

C6_Witness == FullDay /\ Planned /\ windowLengthHours = 3 /\ endHour2 = 2 * 18

\* C7 as stated: a price list whose length is not 24 is rejected, that is
\* find_charge_hours reports an error and returns no plan.
C7_WrongLengthRejected ==
    (ems_prices # None /\ Len(rce_prices) # DAY_HOURS) => IsError(ems_prices)

----------------------------------------------------------------------------
(* Properties of the price cache.  `seen` and `refresh_now` are the cache    *)
(* and the time that the latest refresh request found; `fetches` are the    *)
(* days it asked the API for.                                               *)

Requested == outcome # None
RefreshDone == Requested /\ pc = "idle"
SeenLacksToday == seen = None \/ seen.today = None
SeenFromEarlierDate ==
    /\ seen # None
    /\ seen.today # None
    /\ DateOf(seen.fetched_at) # DateOf(refresh_now)
SeenCompleteSameDate ==
    /\ seen # None
    /\ seen.today # None
    /\ seen.tomorrow # None
    /\ DateOf(seen.fetched_at) = DateOf(refresh_now)
TodayOfRefresh == DateOf(refresh_now)
BothDays == <<TodayOfRefresh, TodayOfRefresh + 1>>

\* a full refresh as the code runs it: today is requested first; tomorrow is
\* requested once the today fetch has returned; a refresh that ended with
\* today alone requested is one whose today fetch failed
FullRefreshRan ==
    /\ pc = "fetch_today" => fetches = <<TodayOfRefresh>>
    /\ pc = "fetch_tomorrow" => fetches = BothDays
    /\ pc = "idle" =>
          \/ fetches = BothDays
          \/ fetches = <<TodayOfRefresh>> /\ outcome = UpdateFailed

\* C8 as stated: a refresh requested with the cache empty or without today's
\* series attempts both the fetch for today and the fetch for tomorrow.
C8_EmptyCacheAttemptsBothFetches ==
    (RefreshDone /\ SeenLacksToday) => fetches = BothDays

\* C8 amended: a refresh requested with the cache empty or without today's
\* series is a full refresh: the fetch for today is attempted, and the fetch
\* for tomorrow is attempted after it unless the today fetch fails, in which
\* case the refresh ends as update-failed with today alone attempted.
C8_EmptyCacheFullRefresh ==
    (Requested /\ SeenLacksToday) => FullRefreshRan

\* a finished full refresh of a cache that held a snapshot without today
C8_Witness ==
    /\ RefreshDone
    /\ seen # None
    /\ seen.today = None
    /\ fetches = BothDays

\* C9 as stated: a refresh requested with a snapshot fetched on another date
\* fetches both today and tomorrow, and the snapshot's tomorrow series is not
\* reused as the new today.
C9_RolloverFetchesBoth ==
    (RefreshDone /\ SeenFromEarlierDate) =>
        /\ fetches = BothDays
        /\ (data # None /\ data.today # None) => data.today # seen.tomorrow

\* C9 amended: a refresh requested with a snapshot fetched on another date is
\* a full refresh even if the snapshot holds both series: today is fetched,
\* and tomorrow is fetched unless the today fetch fails; a snapshot it
\* commits holds as today what this refresh fetched, never the earlier
\* snapshot's tomorrow series.
C9_RolloverFullRefresh ==
    (Requested /\ SeenFromEarlierDate) =>
        /\ FullRefreshRan
        /\ (pc = "idle" /\ outcome = [kind |-> "ok"]) =>
              /\ data.fetched_at = refresh_now
              /\ data.today \in {None, RceDayPrices(TodayOfRefresh, refresh_now)}
              /\ seen.tomorrow # None => data.today # seen.tomorrow
        /\ (pc = "idle" /\ outcome # [kind |-> "ok"]) => data = seen

\* a new snapshot committed over a complete snapshot of the day before
C9_Witness ==
    /\ RefreshDone
    /\ SeenFromEarlierDate
    /\ seen.tomorrow # None
    /\ seen.tomorrow.day = TodayOfRefresh
    /\ outcome = [kind |-> "ok"]
    /\ data.today # None

\* C10: a refresh requested with today and tomorrow cached and fetched_at on
\* the date of now issues no fetch and returns the cached snapshot as it is.
C10_CompleteSameDateIsNoOp ==
    (Requested /\ SeenCompleteSameDate) =>
        /\ pc = "idle"
        /\ fetches = <<>>
        /\ outcome = [kind |-> "ok"]
        /\ data = seen

\* a refresh requested later on the day of a complete snapshot
C10_Witness ==
    /\ RefreshDone
    /\ SeenCompleteSameDate
    /\ refresh_now > seen.fetched_at
    /\ fetches = <<>>

\* the latest refresh request found today's series alone, fetched on the
\* date of its `now`
SeenTodayOnly ==
    /\ seen # None
    /\ seen.today # None
    /\ seen.tomorrow = None
    /\ DateOf(seen.fetched_at) = DateOf(refresh_now)
\* (now - fetched_at).total_seconds() of that request; the clock is in minutes
ElapsedSeconds == (refresh_now - seen.fetched_at) * 60
AfterPublication == HourOf(refresh_now) >= RCE_TOMORROW_PUBLICATION_HOUR
FloorPassed == ElapsedSeconds >= MINIMUM_TIME_BETWEEN_FETCHES_SECONDS
TomorrowOfRefresh == TodayOfRefresh + 1
Ok == [kind |-> "ok"]

\* C11 as stated: a refresh requested with today cached, tomorrow missing,
\* fetched_at on the date of now, now.hour >= 14 and at least 14 minutes
\* since fetched_at issues exactly one fetch, for tomorrow, and on success
\* commits the cached today, the fetched tomorrow and fetched_at = now.
C11_PartialRefreshFetchesTomorrow ==
    (RefreshDone /\ SeenTodayOnly /\ AfterPublication /\ FloorPassed) =>
        /\ fetches = <<TomorrowOfRefresh>>
        /\ outcome = Ok => data = RceData(refresh_now, seen.today, results[1])

\* C12: a refresh requested with today cached, tomorrow missing and
\* fetched_at on the date of now issues no fetch and leaves the cached
\* snapshot as it is when now.hour < 14 or fewer than 14 minutes have passed
\* since fetched_at.
C12_BeforeHourOrFloorIsNoOp ==
    (Requested /\ SeenTodayOnly /\ (~AfterPublication \/ ~FloorPassed)) =>
        /\ pc = "idle"
        /\ fetches = <<>>
        /\ data = seen

\* a refresh requested before 14:00, later than the snapshot it found
C12_Witness ==
    /\ RefreshDone
    /\ SeenTodayOnly
    /\ ~AfterPublication
    /\ refresh_now > seen.fetched_at
    /\ data = seen

\* some fetch of the latest refresh raised (ApiError, timeout, any exception)
FetchFailed == \E i \in 1..Len(results) : results[i] = UpdateFailed

\* C13: when a single-day fetch of a refresh fails the refresh ends as
\* update-failed and the cached snapshot is the one the refresh found; so a
\* full refresh whose today fetch returned and whose tomorrow fetch failed
\* commits nothing.
C13_FailedFetchCommitsNothing ==
    FetchFailed =>
        /\ pc = "idle"
        /\ outcome = UpdateFailed
        /\ data = seen

\* a full refresh over an earlier snapshot: today returned, tomorrow failed
C13_Witness ==
    /\ Len(results) = 2
    /\ results[1].kind = "RceDayPrices"
    /\ results[2] = UpdateFailed
    /\ seen # None
    /\ data = seen

\* C15: the cached snapshot changes in one step only, the return of a
\* refresh that succeeded, and then to an RceData built from that refresh
\* alone; while a refresh awaits a fetch, between the today fetch and the
\* tomorrow fetch included, the cache holds the snapshot the refresh found.
C15_SnapshotReplacedWhole ==
    [][/\ pc' # "idle" => data' = seen'
       /\ data' # data =>
             /\ pc = "fetch_tomorrow"
             /\ pc' = "idle"
             /\ outcome' = Ok
             /\ data' = RceData(refresh_now, results'[1], results'[2])]_vars

\* a full refresh over an earlier snapshot, between its two fetches
C15_Witness ==
    /\ pc = "fetch_tomorrow"
    /\ pending_today # None
    /\ seen # None
    /\ data = seen

FetchesServed == \A i \in 1..Len(results) : results[i].kind = "RceDayPrices"

----------------------------------------------------------------------------
(* Properties of the load controller.  `input` is the snapshot of the       *)
(* latest update call, `prev_outputs` the outputs that call found.          *)

outputs == <<should_turn_on, should_turn_off>>
AllPresent == ~_none_present(input)
\* the snapshot's values in the units of the specification
soc2 == input.battery_soc.v
pvAvailable == -input.consumption_minus_pv_2_minutes.v
batteryPower == -input.battery_power_2_minutes.v
exportedEnergyWh == input.exported_energy_hourly.v
heaterOn == input.water_heater_is_on.v
SocIs(n) == soc2 = n * SOC_UNIT
SocIn(a, b) == a * SOC_UNIT <= soc2 /\ soc2 <= b * SOC_UNIT
IntegerSoc == soc2 % SOC_UNIT = 0

\* C18: after update with a snapshot in which one of the five signals is
\* absent both outputs are false, whatever the other signals are and
\* whatever the outputs were before the call.
C18_AbsentSignalIsNeutral ==
    _none_present(input) => outputs = <<FALSE, FALSE>>

\* both outputs were true, then a snapshot without exported energy arrived
C18_Witness ==
    /\ prev_outputs = <<TRUE, TRUE>>
    /\ input.exported_energy_hourly = None
    /\ input.battery_soc # None
    /\ input.consumption_minus_pv_2_minutes # None
    /\ input.battery_power_2_minutes # None
    /\ outputs = <<FALSE, FALSE>>

\* an override condition of the controller holds
OverrideHolds ==
    /\ soc2 >= 90 * SOC_UNIT
    /\ \/ exportedEnergyWh > 300 /\ pvAvailable > 0
       \/ exportedEnergyWh > 80 /\ heaterOn

\* the tier table of the specification
TierTable ==
    IF SocIn(0, 89) THEN <<pvAvailable > 3700, batteryPower < 900>>
    ELSE IF SocIn(90, 96) THEN <<pvAvailable > 3000, batteryPower < 100>>
    ELSE IF SocIn(97, 98) THEN <<pvAvailable > 3500, batteryPower < 100>>
    ELSE IF SocIs(99) THEN <<pvAvailable > 3300, batteryPower < 90>>
    ELSE <<pvAvailable > 3000, pvAvailable < 0>>

\* C19: for an integer soc in 0..100, all five signals present and no
\* override condition holding, the outputs are those of the tier table, with
\* strict comparisons.
C19_TierTable ==
    (AllPresent /\ IntegerSoc /\ SocIn(0, 100) /\ ~OverrideHolds) => outputs = TierTable

\* soc 99 with the PV surplus exactly at 3300 and the battery power exactly
\* at 90: neither strict comparison holds
C19_Witness ==
    /\ AllPresent
    /\ SocIs(99)
    /\ pvAvailable = 3300
    /\ batteryPower = 90
    /\ ~OverrideHolds
    /\ outputs = <<FALSE, FALSE>>

\* soc is outside [0,100] or in no row of the tier table
UnmappedSoc ==
    \/ soc2 < 0
    \/ soc2 > 100 * SOC_UNIT
    \/ 89 * SOC_UNIT < soc2 /\ soc2 < 90 * SOC_UNIT
    \/ 96 * SOC_UNIT < soc2 /\ soc2 < 100 * SOC_UNIT /\ ~IntegerSoc

\* C20 as stated: with all signals present and a soc that is negative,
\* above 100 or a non-integer between 89 and 90 or between 96 and 100, both
\* outputs are false.
C20_UnmappedSocIsNeutral ==
    (AllPresent /\ UnmappedSoc) => outputs = <<FALSE, FALSE>>

\* the export override of the controller applies
ExportOverride == exportedEnergyWh > 300 /\ pvAvailable > 0
\* what the if/elif chain gives for the snapshot
tierResult == Tier(soc2, pvAvailable, batteryPower)

\* C21: with all signals present and soc >= 90, exported energy above 300 Wh
\* and a positive PV surplus force the outputs to (true, false), whatever the
\* tier result and the relay state.
C21_ExportOverrideForcesOn ==
    (AllPresent /\ soc2 >= 90 * SOC_UNIT /\ ExportOverride) => outputs = <<TRUE, FALSE>>

\* the override against a tier result of (false, true), relay off
C21_Witness ==
    /\ AllPresent
    /\ SocIs(95)
    /\ ExportOverride
    /\ tierResult = <<FALSE, TRUE>>
    /\ ~heaterOn
    /\ outputs = <<TRUE, FALSE>>

\* C22: with all signals present, soc >= 90, the export override not
\* applying and exported energy above 80 Wh, a relay that is on makes
\* turnOff false and leaves turnOn as the tier gives it; with the relay off
\* both outputs are the tier result.
C22_RelayOverrideKeepsTurnOn ==
    (AllPresent /\ soc2 >= 90 * SOC_UNIT /\ ~ExportOverride /\ exportedEnergyWh > 80) =>
        outputs = IF heaterOn THEN <<tierResult[1], FALSE>> ELSE tierResult

\* the relay is on and the tier asks to turn off: turnOff is suppressed
C22_Witness ==
    /\ AllPresent
    /\ soc2 >= 90 * SOC_UNIT
    /\ ~ExportOverride
    /\ exportedEnergyWh > 80
    /\ heaterOn
    /\ tierResult = <<TRUE, TRUE>>
    /\ outputs = <<TRUE, FALSE>>

\* C23: with all signals present and soc < 90 the outputs are the tier
\* result, whatever the exported energy and the relay state.
C23_NoOverrideBelow90 ==
    (AllPresent /\ soc2 < 90 * SOC_UNIT) => outputs = tierResult

\* soc 89 with both override conditions met and a tier result of (false, true)
C23_Witness ==
    /\ AllPresent
    /\ SocIs(89)
    /\ ExportOverride
    /\ heaterOn
    /\ outputs = <<FALSE, TRUE>>

\* the snapshot of the specification's example
Soc95Example ==
    /\ AllPresent
    /\ SocIs(95)
    /\ pvAvailable = 3100
    /\ batteryPower = 50
    /\ exportedEnergyWh = 0

\* C24 as stated: soc 95, PV surplus 3100, battery power 50 and no exported
\* energy give turnOn = true and turnOff = false.
C24_Soc95TurnsOnOnly ==
    Soc95Example => outputs = <<TRUE, FALSE>>

\* C24 amended: for that snapshot both outputs are true: the 90..96 tier
\* sets turnOn as 3100 > 3000 and turnOff as 50 < 100, and without exported
\* energy no override clears turnOff.
C24_Soc95TurnsOnAndOff ==
    Soc95Example => outputs = <<TRUE, TRUE>>

C24_Witness == Soc95Example /\ heaterOn /\ outputs = <<TRUE, TRUE>>

\* the outputs as a function of a snapshot alone
PureOutputs(state) ==
    IF _none_present(state) THEN <<FALSE, FALSE>>
    ELSE Overrides(Tier(state.battery_soc.v,
                        -state.consumption_minus_pv_2_minutes.v,
                        -state.battery_power_2_minutes.v),
                   state.battery_soc.v,
                   WattHours(state.exported_energy_hourly.v),
                   -state.consumption_minus_pv_2_minutes.v,
                   state.water_heater_is_on.v)

\* C25: after every history of update calls the stored outputs are one
\* fixed function of the latest snapshot; the relay state is read from the
\* snapshot, not from the outputs stored before.
C25_OutputsFromSnapshotOnly ==
    outputs = PureOutputs(input)

\* should_turn_on was stored as true, the snapshot says the relay is off,
\* and turnOff is not suppressed
C25_Witness ==
    /\ AllPresent
    /\ prev_outputs[1]
    /\ ~heaterOn
    /\ soc2 >= 90 * SOC_UNIT
    /\ exportedEnergyWh > 80
    /\ ~ExportOverride
    /\ should_turn_off

\* C26: the outputs are not mutually exclusive: with all signals present, a
\* soc of 0..89, a PV surplus above 3700 and a battery power below 900 both
\* turnOn and turnOff are true.
C26_BothOutputsTrue ==
    (AllPresent /\ SocIn(0, 89) /\ pvAvailable > 3700 /\ batteryPower < 900) =>
        outputs = <<TRUE, TRUE>>

C26_Witness ==
    /\ AllPresent
    /\ SocIs(89)
    /\ pvAvailable = 3701
    /\ batteryPower = 899
    /\ should_turn_on /\ should_turn_off

----------------------------------------------------------------------------
(* Properties of the adapter *)

\* the host state of e is missing, or its text is not "on"/"off" for the
\* relay, not a numeral for a numeric entity
Unusable(e) ==
    \/ hass_states[e] = None
    \/ IF e = "water_heater_is_on"
       THEN hass_states[e].state \notin {TEXT_ON, TEXT_OFF}
       ELSE hass_states[e].state \notin NumeralTexts(e)

\* C27: once the adapter has handed a snapshot to the controller, an entity
\* that is missing from the host state machine or whose state cannot be
\* parsed is None in that snapshot, not 0 or false, and the outputs computed
\* from the snapshot are (false, false).
C27_UnusableSignalIsAbsent ==
    started =>
        \A e \in Entities :
            Unusable(e) => input[e] = None /\ outputs = <<FALSE, FALSE>>

\* exported energy turns "unavailable" while the other four signals would, with
\* an exported energy of 0, give (true, true), as the call before did
C27_Witness ==
    /\ started
    /\ hass_states["exported_energy_hourly"] = State(TEXT_UNAVAILABLE)
    /\ input.battery_soc = Some(50 * SOC_UNIT)
    /\ input.consumption_minus_pv_2_minutes = Some(-4000)
    /\ input.battery_power_2_minutes = Some(-50)
    /\ input.water_heater_is_on = Some(TRUE)
    /\ prev_outputs = <<TRUE, TRUE>>
    /\ input.exported_energy_hourly = None
    /\ outputs = <<FALSE, FALSE>>

----------------------------------------------------------------------------
(* Properties of the parsed price series *)

Built == rce_day.kind = "RceDayPrices" /\ rce_day.module = "domain.rce"
SeriesHours == [i \in 1..Len(rce_day.prices) |-> rce_day.prices[i].datetime.hour]
OnTheHourRecords == SelectSeq(json_data, LAMBDA price : price.minute = 0)

\* every series create_from_json builds holds the on-the-hour records of the
\* response, in their order, and no other record
KeepsOnTheHourRecords ==
    Built =>
        /\ Len(rce_day.prices) = Len(OnTheHourRecords)
        /\ \A i \in 1..Len(rce_day.prices) :
              /\ rce_day.prices[i].price = OnTheHourRecords[i].rce_pln
              /\ rce_day.prices[i].datetime.hour = OnTheHourRecords[i].hour
              /\ rce_day.prices[i].datetime.minute = 0

\* C28: every price series create_from_json builds from the records of a
\* response has exactly 24 entries, no hour twice, and each entry is the
\* price of a record that starts on the hour.
C28_SeriesHas24DistinctHours ==
    Built =>
        /\ Len(rce_day.prices) = DAY_HOURS
        /\ \A i, j \in 1..Len(rce_day.prices) :
              SeriesHours[i] = SeriesHours[j] => i = j
        /\ \A i \in 1..Len(rce_day.prices) :
              \E k \in 1..Len(json_data) :
                  /\ json_data[k].minute = 0
                  /\ json_data[k].rce_pln = rce_day.prices[i].price

----------------------------------------------------------------------------
(* Properties of the Ems object *)

UpdateRceCalled == ems_call # None /\ ems_call.method = "update_rce"
UpdateHourlyCalled == ems_call # None /\ ems_call.method = "update_hourly"
\* the data of the call holds a today series, a tomorrow series
TodayGiven == UpdateRceCalled /\ ems_call.data # None /\ ems_call.data.today # None
TomorrowGiven == UpdateRceCalled /\ ems_call.data # None /\ ems_call.data.tomorrow # None
TodayCached == ems.today.hour_price # None
PriceAt(prices, hour) == Some(prices[hour + 1])

\* what the call does when it raises no exception
CurrentPriceUnlessRaised ==
    (ems_call # None /\ ems_call.raised = None) =>
        /\ TodayGiven =>
              ems.current_price = PriceAt(ems_call.data.today.prices, ems_call.hour)
        /\ (UpdateHourlyCalled /\ TodayCached) =>
              /\ ems.current_price = PriceAt(ems.today.hour_price, ems_call.hour)
              /\ ems_call.notified = 1
        /\ ~TodayCached =>
              /\ ems.current_price = ems_call.price_before
              /\ ems_call.notified = 0

\* C29: after update_hourly(now) with a today series cached, and after
\* update_rce(now, data) with a today series in data, current_price is that
\* series' price at now.hour; when there is no today series, neither given
\* nor cached, current_price is what it was and no listener was notified.
C29_CurrentPriceIsTodaysPrice ==
    ems_call # None =>
        /\ TodayGiven =>
              ems.current_price = PriceAt(ems_call.data.today.prices, ems_call.hour)
        /\ (UpdateHourlyCalled /\ TodayCached) =>
              ems.current_price = PriceAt(ems.today.hour_price, ems_call.hour)
        /\ (~TodayGiven /\ ~TodayCached) =>
              /\ ems.current_price = ems_call.price_before
              /\ ems_call.notified = 0

\* C30: after update_rce with data, the tomorrow plan is empty exactly when
\* data has no tomorrow series, and is otherwise the plan the optimizer
\* makes for data's tomorrow series; so no earlier tomorrow plan is left
\* when data has no tomorrow series.
C30_TomorrowPlanFollowsData ==
    (UpdateRceCalled /\ ems_call.data # None) =>
        /\ (ems.tomorrow = EmsDayData_empty) <=> ~TomorrowGiven
        /\ TomorrowGiven => ems.tomorrow = Plan(ems_call.data.tomorrow)

----------------------------------------------------------------------------
(* Properties of the listeners of the Ems object *)

UpdateStateNotified == notifications # NoNotification /\ notifications.by = "update_state"
\* the registrations in force when the listeners were notified
RegisteredThen == notifications.registry.added \ notifications.registry.removed
InvokedTimes(l) ==
    Cardinality({i \in DOMAIN notifications.invoked : notifications.invoked[i].listener = l})

\* C31: an update_state call invokes every registration in force exactly
\* once, each invocation finds the outputs the call has computed, and a
\* registration whose remove function was called before is not invoked.
C31_UpdateNotifiesRegistered ==
    UpdateStateNotified =>
        /\ \A l \in RegisteredThen : InvokedTimes(l) = 1
        /\ \A l \in notifications.registry.removed : InvokedTimes(l) = 0
        /\ \A i \in DOMAIN notifications.invoked :
              notifications.invoked[i].found = <<should_turn_on, should_turn_off>>

\* two of three registrations are in force, one was removed, and the call
\* changed the outputs
C31_Witness ==
    /\ UpdateStateNotified
    /\ Cardinality(RegisteredThen) = 2
    /\ Cardinality(notifications.registry.removed) = 1
    /\ Len(notifications.invoked) = 2
    /\ prev_outputs # <<should_turn_on, should_turn_off>>

----------------------------------------------------------------------------
(* Further properties of the optimizer *)

CalledTwice == ems_prices # None /\ ems_prices_2 # None
\* what a plan reports: window length, start hour, end hour, hourly prices
Reported(p) ==
    [windowLengthHours |-> p.best_consecutive_hours,
     startHour |-> best_start_charge_hour(p),
     endHour |-> best_end_charge_hour(p),
     hour_price |-> p.hour_price]

Qualifies(L) ==
    \/ bestStart[L] = bestStart[3]
    \/ /\ bestStart[L] < bestStart[3]
       /\ \/ rce_prices[bestStart[L] + 1] < 100
          \/ rce_prices[bestStart[L] + 1] - CapPrice < 45
QualifyingLengths == {L \in 4..8 : Qualifies(L)}

\* C33: the length find_best_consecutive_hours returns is the largest length
\* in 4..8 whose best start equals bestStart[3], or lies before bestStart[3]
\* with a price below 100 or less than 45 above capPrice; it is 3 when there is
\* no such length.  Every length is compared with bestStart[3].
C33_LargestQualifyingLength ==
    (FullDay /\ Planned) =>
        /\ QualifyingLengths = {} => windowLengthHours = 3
        /\ QualifyingLengths # {} =>
              /\ windowLengthHours \in QualifyingLengths
              /\ \A L \in QualifyingLengths : L <= windowLengthHours

\* a length between 4 and 7 was returned, and a longer length that starts
\* before bestStart[3] was turned down for its price
C33_Witness ==
    /\ FullDay /\ Planned
    /\ windowLengthHours \in 4..7
    /\ \E L \in (windowLengthHours + 1)..8 :
          bestStart[L] < bestStart[3] /\ ~Qualifies(L)

\* C34: on a series of 24 prices the window chosen starts at an hour from 6
\* up to bestStart[3] and ends, at start plus length, at hour 23 or before.
C34_WindowInsideDay ==
    (FullDay /\ Planned) =>
        /\ FIRST_START_HOUR <= bestStart[windowLengthHours]
        /\ bestStart[windowLengthHours] <= bestStart[3]
        /\ bestStart[windowLengthHours] + windowLengthHours <= DAY_HOURS - 1

\* the window of 8 hours that ends at hour 23
C34_Witness ==
    /\ FullDay /\ Planned
    /\ windowLengthHours = MAX_CONSECUTIVE_HOURS
    /\ bestStart[windowLengthHours] + windowLengthHours = DAY_HOURS - 1

----------------------------------------------------------------------------
(* Further properties of the price cache *)

\* C35: in the cached snapshot the today series is the one fetched for the
\* date of fetched_at and the tomorrow series, when there is one, the one
\* fetched for the date after it.
C35_SeriesDatesFollowFetchedAt ==
    data # None =>
        /\ data.today # None => data.today.day = DateOf(data.fetched_at)
        /\ data.tomorrow # None => data.tomorrow.day = DateOf(data.fetched_at) + 1

\* a snapshot with both series, committed over one of an earlier date
C35_Witness ==
    /\ RefreshDone
    /\ seen # None
    /\ data # seen
    /\ DateOf(data.fetched_at) = DateOf(seen.fetched_at) + 1
    /\ data.today # None
    /\ data.tomorrow # None

\* a fetch of the refresh returned None and none failed
FetchedNothing ==
    /\ RefreshDone
    /\ ~FetchFailed
    /\ \E i \in 1..Len(results) : results[i] = None

\* C36: a refresh in which a fetch returned None (no data for the day) and
\* no fetch raised does not end as update-failed: it commits the snapshot
\* with fetched_at = now and that day absent.
C36_NoDataIsNotAFailure ==
    FetchedNothing =>
        /\ outcome = Ok
        /\ data # None
        /\ data.fetched_at = refresh_now
        /\ data.today = results[1]
        /\ data.tomorrow = results[2]

\* over a snapshot with today's series, a refresh on the next date got no
\* data for either day
C36_Witness ==
    /\ FetchedNothing
    /\ seen # None
    /\ seen.today # None
    /\ results = <<None, None>>
    /\ data.today = None
    /\ data.tomorrow = None

----------------------------------------------------------------------------
(* Further properties of the load controller *)

\* C37: with every signal present the two outputs are not both true when
\* soc is 100, nor when soc >= 90 with the export override applying
\* (exported energy above 300 Wh and a positive PV surplus).
C37_NotBothAtFullOrExporting ==
    (AllPresent /\ (SocIs(100) \/ (soc2 >= 90 * SOC_UNIT /\ ExportOverride))) =>
        ~(should_turn_on /\ should_turn_off)

\* the export override, relay off, on a snapshot whose tier result is
\* (true, true)
C37_Witness ==
    /\ AllPresent
    /\ SocIn(90, 96)
    /\ ExportOverride
    /\ ~heaterOn
    /\ tierResult = <<TRUE, TRUE>>
    /\ outputs = <<TRUE, FALSE>>

----------------------------------------------------------------------------
(* Further properties of the Ems object *)

\* update_rce was called with data that holds no today series
TodayAbsent == UpdateRceCalled /\ ems_call.data # None /\ ems_call.data.today = None
\* update_rce was called with None
NoSnapshot == UpdateRceCalled /\ ems_call.data = None
PlanCachedBefore == ems_call.before.today.hour_price # None

\* C38 as stated: update_rce with data that holds no today series leaves the
\* today plan and current_price as they were; update_rce with no data leaves
\* the whole object as it was and notifies no listener.
C38_TodayAbsentKeepsPrice ==
    /\ TodayAbsent =>
          /\ ems.today = ems_call.before.today
          /\ ems.current_price = ems_call.before.current_price
    /\ NoSnapshot => (ems = ems_call.before /\ ems_call.notified = 0)

\* C38 amended: update_rce with data that holds no today series leaves the
\* today plan as it was; when a plan is cached and the call raises nothing,
\* current_price becomes that plan's price at now.hour and the listeners are
\* notified; otherwise current_price stays and no listener is notified.
\* update_rce with no data leaves the whole object as it was and notifies no
\* listener.
C38_TodayAbsentRefreshesPrice ==
    /\ TodayAbsent =>
          /\ ems.today = ems_call.before.today
          /\ IF PlanCachedBefore /\ ems_call.raised = None
             THEN /\ ems.current_price =
                        PriceAt(ems_call.before.today.hour_price, ems_call.hour)
                  /\ ems_call.notified = 1
             ELSE /\ ems.current_price = ems_call.before.current_price
                  /\ ems_call.notified = 0
    /\ NoSnapshot => (ems = ems_call.before /\ ems_call.notified = 0)

\* with a plan cached and the price of hour 0 current, update_rce at hour 13
\* with data that holds neither series
C38_Witness ==
    /\ TodayAbsent
    /\ ems_call.data.tomorrow = None
    /\ ems_call.hour = 13
    /\ PlanCachedBefore
    /\ ems.today = ems_call.before.today
    /\ ems_call.before.current_price = PriceAt(ems.today.hour_price, 0)
    /\ ems.current_price = PriceAt(ems.today.hour_price, 13)
    /\ ems.current_price # ems_call.before.current_price

----------------------------------------------------------------------------
(* Properties of the WeatherListenerCoordinator.                             *)

\* the subscription made by the registration _unsubscribe_callback names
CurrentSubscriptions ==
    {s \in weather.subscriptions : s.registration = weather._unsubscribe_callback}

\* no more than one forecast subscription is active
AtMostOneSubscription == Cardinality(weather.subscriptions) <= 1

\* the only subscription is the current one, and it sits on the present
\* entity: registering again cancelled the one before, and no left-over
\* unsubscribe callback cancelled the current one
OnlyTheCurrentSubscription ==
    /\ weather.subscriptions = CurrentSubscriptions
    /\ weather._unsubscribe_callback # NoCallback =>
          weather.subscriptions =
             {[registration |-> weather._unsubscribe_callback, entity |-> weather.entity]}

\* a forecast handed over after shutdown leaves the coordinator as it was
ForecastAfterShutdownIgnored ==
    (weather_event # None /\ weather_event.event = "forecast"
                          /\ weather_event.before._shutdown_requested) =>
        weather = weather_event.before

\* no subscription is left once _shutdown has run
NoSubscriptionAfterShutdown ==
    weather._shutdown_requested => weather.subscriptions = {}

\* _shutdown itself cancels the subscription
ShutdownCancels ==
    (weather_event # None /\ weather_event.event = "shutdown") =>
        (weather.subscriptions = {} /\ weather._unsubscribe_callback = NoCallback)

\* once the host has started, nothing subscribes a coordinator that was
\* shut down
StartedStaysUnsubscribedAfterShutdown ==
    [][(/\ weather._hass_started
        /\ weather._shutdown_requested
        /\ weather.subscriptions = {}) => weather'.subscriptions = {}]_vars

\* C39: after any sequence of start, entity-appeared, entity-removed and
\* shutdown events the coordinator holds at most one active forecast
\* subscription, the one of its latest registration; after shutdown no
\* subscription remains, and forecasts no longer change forecast_hourly.
C39_OneSubscriptionNoneAfterShutdown ==
    /\ AtMostOneSubscription
    /\ OnlyTheCurrentSubscription
    /\ NoSubscriptionAfterShutdown
    /\ ForecastAfterShutdownIgnored

\* the entry was unloaded while the host was still starting, and the start
\* event then subscribed the coordinator that was shut down
C39_SubscribedAfterShutdown ==
    /\ weather_event # None
    /\ weather_event.event = "start"
    /\ weather_event.before._shutdown_requested
    /\ weather_event.before.subscriptions = {}
    /\ weather.subscriptions # {}

====
